---------------------------- MODULE Spec2Model ----------------------------
(***************************************************************************)
(* AiVidLab: the pacing segmenter (AudioAnalyzer.process and               *)
(* AudioAnalyzer._create_pacing_chunks_from_words) and the subtitle        *)
(* builder (SubtitleProcessor.process, _align_headings, _format_ass_time). *)
(*                                                                         *)
(* Sequences are 1-based here and 0-based in the Python source: word i of  *)
(* the model is words[i-1] of the source.                                  *)
(*                                                                         *)
(* Units.  Word times of the pacing segmenter are whole seconds, so that   *)
(* the source's "* 1000" is the conversion to milliseconds.  The duration  *)
(* entries of chunk_config are in half milliseconds (1/2000 s), so that    *)
(* int(float(x) * 1000) truncates.  Python floats are modelled by exact    *)
(* integers; floating-point rounding error is not modelled.                *)
(***************************************************************************)
EXTENDS Integers, Sequences, FiniteSets, TLC

VARIABLES
    pc,              \* position of the call being modelled
    raised,          \* exception that ended the call, or "none"
    \* ---- AudioAnalyzer ----
    words,           \* word_timestamps handed to _create_pacing_chunks_from_words
    chunk_config,    \* the chunk_config dict of process()
    min_silence_ms,
    min_chunk_ms,
    max_chunk_ms,
    pacing_chunks,   \* the list the three passes rebind
    merged,          \* result of the merge pass (pacing_chunks after line 168)
    final_chunks,    \* the returned list
    \* ---- SubtitleProcessor ----
    word_timestamps,     \* kwargs['word_timestamps'], or the fallback's words
    heading_strings,     \* kwargs['heading_strings']
    line_rules,          \* style_config['line_rules']
    time_offset_s,       \* kwargs['time_offset_s']
    kwargs,              \* whether audio_bytes and analyzer_config are given
    h_next,              \* position of the for loop of _align_headings
    aligned_headings,
    used_word_indices,
    dialogue_entries,
    document,            \* the returned file content
    \* ---- _format_ass_time called on its own ----
    seconds_arg,         \* the argument, in ticks
    formatted,           \* the returned string
    \* ---- a processor object used for several calls ----
    call_no,             \* 1 during the first call on the object, 2 during the second
    first_output,        \* what the first call returned
    \* ---- ImageGenerator ----
    gemini_has_failed,   \* self.gemini_has_failed
    bytez_model,         \* whether self.bytez_model is set (not None)
    image_calls,         \* history: one record per process() call on the object
    \* ---- Orchestrator.run_pipeline ----
    current_stage,       \* self.current_stage
    step_no,             \* position of the for loop over pipeline_steps
    files,               \* the artifact files that exist in the run directory
    script_content,      \* whether self.script_content is set (not None)
    asset_paths,         \* the keys of self.asset_paths
    analysis_result,     \* whether the local analysis_result is set (not None)
    prompts_result,      \* whether the local prompts_result is set (not None)
    run_result,          \* "running", or the value returned: "True" / "False"
    stage_log,           \* history: <<stage, "skipped" | "executed" | "raised">>
    unset_reads          \* history: <<stage, value>> read by a stage while unset

pacingVars == <<words, chunk_config, min_silence_ms, min_chunk_ms, max_chunk_ms,
                pacing_chunks, merged, final_chunks>>

subVars == <<word_timestamps, heading_strings, line_rules, time_offset_s, kwargs,
             h_next, aligned_headings, used_word_indices, dialogue_entries, document>>

imageVars == <<gemini_has_failed, bytez_model, image_calls>>

pipelineVars == <<current_stage, step_no, files, script_content, asset_paths,
                  analysis_result, prompts_result, run_result, stage_log, unset_reads>>

auxVars == <<seconds_arg, formatted, call_no, first_output, imageVars, pipelineVars>>

vars == <<pc, raised, pacingVars, subVars, auxVars>>

----------------------------------------------------------------------------
(* Bounds of the model *)

MaxWords == 3

MaxTime == 2

MaxHeadings == 2

\* the longest list of equal words
MaxRepeats == 8

\* how far, in ticks, an argument of _format_ass_time lies from a round time
MaxDelta == 120

----------------------------------------------------------------------------
(* Python helpers *)

\* dict.get(key, default)
DictGet(d, k, default) == IF k \in DOMAIN d THEN d[k] ELSE default

\* "key in dict"
Has(d, k) == k \in DOMAIN d

\* int(x) of the float num/den: truncation toward zero
IntTrunc(num, den) == IF num >= 0 THEN num \div den ELSE -((-num) \div den)

\* bool(x) of an int
Truthy(n) == n # 0

\* the record w without key k
DropKey(w, k) == [x \in (DOMAIN w) \ {k} |-> w[x]]

----------------------------------------------------------------------------
(* AudioAnalyzer.process: reading chunk_config *)

DefaultMinSilenceMs == 500

\* duration entries of chunk_config are given in 1/CfgPerMs milliseconds
CfgPerMs == 2

\* int(chunk_config.get('min_silence_len_ms', 500))
ReadMinSilenceMs(cfg) == DictGet(cfg, "min_silence_len_ms", DefaultMinSilenceMs)

\* ReadDurationMs with a default of 5 seconds
ReadDurationMsDefault5000(cfg, key) == IntTrunc(DictGet(cfg, key, 5000 * CfgPerMs), CfgPerMs)

\* int(float(chunk_config.get(key, 0)) * 1000)
ReadDurationMs(cfg, key) == IntTrunc(DictGet(cfg, key, 0), CfgPerMs)

----------------------------------------------------------------------------
(* AudioAnalyzer._create_pacing_chunks_from_words *)

\* seconds to milliseconds: "* 1000"
SecToMs(s) == s * 1000

\* MkChunk with a duration that runs to the start of the word after the
\* chunk: the silence after the chunk is counted in it
MkChunkWithSilence(ws, s, e) ==
    [ raw_text     |-> [j \in 1..(e - s + 1) |-> ws[s + j - 1].text],
      duration_ms  |-> IF e < Len(ws) THEN SecToMs(ws[e + 1].start - ws[s].start)
                       ELSE SecToMs(ws[e].end - ws[s].start),
      start_ms     |-> SecToMs(ws[s].start),
      end_ms       |-> SecToMs(ws[e].end),
      word_indices |-> <<s, e>> ]

\* the chunk dict built at lines 109-122 and 126-139 for words s..e; raw_text
\* is the sequence of the joined word texts
MkChunk(ws, s, e) ==
    [ raw_text     |-> [j \in 1..(e - s + 1) |-> ws[s + j - 1].text],
      duration_ms  |-> SecToMs(ws[e].end - ws[s].start),
      start_ms     |-> SecToMs(ws[s].start),
      end_ms       |-> SecToMs(ws[e].end),
      word_indices |-> <<s, e>> ]

\* the dict reads of lines 109-113 / 126-130 succeed
ChunkReadable(ws, s, e) ==
    /\ Has(ws[s], "start")
    /\ Has(ws[e], "end")
    /\ \A j \in s..e : Has(ws[j], "text")

\* KeyErrorResult with the KeyError swallowed: no chunk, no exception
KeyErrorResultSwallowed == [raised |-> FALSE, chunks |-> <<>>]

KeyErrorResult == [raised |-> TRUE, chunks |-> <<>>]

\* InitialSplitFrom with the test of line 107 as > instead of >=
RECURSIVE InitialSplitFromGt(_, _, _, _)
InitialSplitFromGt(ws, msil, i, cur) ==
    IF i = Len(ws)
    THEN IF ChunkReadable(ws, cur, i)
         THEN [raised |-> FALSE, chunks |-> <<MkChunk(ws, cur, i)>>]
         ELSE KeyErrorResult
    ELSE IF ~Has(ws[i + 1], "start") \/ ~Has(ws[i], "end")
         THEN KeyErrorResult
         ELSE IF SecToMs(ws[i + 1].start - ws[i].end) > msil
              THEN IF ~ChunkReadable(ws, cur, i)
                   THEN KeyErrorResult
                   ELSE LET rest == InitialSplitFromGt(ws, msil, i + 1, i + 1)
                        IN  IF rest.raised THEN KeyErrorResult
                            ELSE [raised |-> FALSE,
                                  chunks |-> <<MkChunk(ws, cur, i)>> \o rest.chunks]
              ELSE InitialSplitFromGt(ws, msil, i + 1, cur)

\* the loop of lines 99-139 from word i on, cur being the first index of
\* current_chunk_word_indices; a missing key raises KeyError
RECURSIVE InitialSplitFrom(_, _, _, _)
InitialSplitFrom(ws, msil, i, cur) ==
    IF i = Len(ws)
    THEN IF ChunkReadable(ws, cur, i)
         THEN [raised |-> FALSE, chunks |-> <<MkChunk(ws, cur, i)>>]
         ELSE KeyErrorResult
    ELSE IF ~Has(ws[i + 1], "start") \/ ~Has(ws[i], "end")
         THEN KeyErrorResult
         ELSE IF SecToMs(ws[i + 1].start - ws[i].end) >= msil
              THEN IF ~ChunkReadable(ws, cur, i)
                   THEN KeyErrorResult
                   ELSE LET rest == InitialSplitFrom(ws, msil, i + 1, i + 1)
                        IN  IF rest.raised THEN KeyErrorResult
                            ELSE [raised |-> FALSE,
                                  chunks |-> <<MkChunk(ws, cur, i)>> \o rest.chunks]
              ELSE InitialSplitFrom(ws, msil, i + 1, cur)

\* Absorb with the while of line 156 turned into an if: one chunk is absorbed
AbsorbOnce(cs, minms, m, j) ==
    IF j <= Len(cs) /\ m.duration_ms < minms
    THEN [ chunk |-> [ raw_text     |-> m.raw_text \o cs[j].raw_text,
                       duration_ms  |-> cs[j].end_ms - m.start_ms,
                       start_ms     |-> m.start_ms,
                       end_ms       |-> cs[j].end_ms,
                       word_indices |-> <<m.word_indices[1], cs[j].word_indices[2]>> ],
           j |-> j + 1 ]
    ELSE [chunk |-> m, j |-> j]

\* lines 155-163: merged_chunk absorbs pacing_chunks[j], pacing_chunks[j+1], ...
RECURSIVE Absorb(_, _, _, _)
Absorb(cs, minms, m, j) ==
    IF j <= Len(cs) /\ m.duration_ms < minms
    THEN Absorb(cs, minms,
                [ raw_text     |-> m.raw_text \o cs[j].raw_text,
                  duration_ms  |-> cs[j].end_ms - m.start_ms,
                  start_ms     |-> m.start_ms,
                  end_ms       |-> cs[j].end_ms,
                  word_indices |-> <<m.word_indices[1], cs[j].word_indices[2]>> ],
                j + 1)
    ELSE [chunk |-> m, j |-> j]

\* a merge pass that adds a short chunk to the chunk before it: the result for
\* the first Len(cs) - i + 1 chunks
RECURSIVE MergeFromBackward(_, _, _)
MergeFromBackward(cs, minms, i) ==
    LET n == Len(cs) - i + 1
    IN  IF n < 1 THEN <<>>
        ELSE LET prev == MergeFromBackward(cs, minms, i + 1)
                 m    == prev[Len(prev)]
             IN  IF cs[n].duration_ms < minms /\ prev # <<>>
                 THEN [prev EXCEPT ![Len(prev)] =
                          [ raw_text     |-> m.raw_text \o cs[n].raw_text,
                            duration_ms  |-> cs[n].end_ms - m.start_ms,
                            start_ms     |-> m.start_ms,
                            end_ms       |-> cs[n].end_ms,
                            word_indices |-> <<m.word_indices[1], cs[n].word_indices[2]>> ]]
                 ELSE Append(prev, cs[n])

\* the while loop of lines 145-166 from index i on
RECURSIVE MergeFrom(_, _, _)
MergeFrom(cs, minms, i) ==
    IF i > Len(cs) THEN <<>>
    ELSE IF cs[i].duration_ms >= minms \/ i = Len(cs)
         THEN <<cs[i]>> \o MergeFrom(cs, minms, i + 1)
         ELSE LET r == Absorb(cs, minms, cs[i], i + 1)
              IN  <<r.chunk>> \o MergeFrom(cs, minms, r.j)

\* lines 142-168
MergeChunks(cs, minms) ==
    IF Truthy(minms) /\ cs # <<>> THEN MergeFrom(cs, minms, 1) ELSE cs

\* SubChunksFrom without the remainder of lines 202-212 when it is one word
RECURSIVE SubChunksFromNoTail(_, _, _, _, _)
SubChunksFromNoTail(ws, maxms, sub_start, cand, end_idx) ==
    IF cand > end_idx
    THEN IF sub_start < end_idx THEN <<MkChunk(ws, sub_start, end_idx)>> ELSE <<>>
    ELSE IF SecToMs(ws[cand].end - ws[sub_start].start) >= maxms
         THEN <<MkChunk(ws, sub_start, cand)>>
                  \o SubChunksFromNoTail(ws, maxms, cand + 1, cand + 1, end_idx)
         ELSE SubChunksFromNoTail(ws, maxms, sub_start, cand + 1, end_idx)

\* SubChunksFrom with > for the >= of line 189
RECURSIVE SubChunksFromGt(_, _, _, _, _)
SubChunksFromGt(ws, maxms, sub_start, cand, end_idx) ==
    IF cand > end_idx
    THEN IF sub_start <= end_idx THEN <<MkChunk(ws, sub_start, end_idx)>> ELSE <<>>
    ELSE IF SecToMs(ws[cand].end - ws[sub_start].start) > maxms
         THEN <<MkChunk(ws, sub_start, cand)>>
                  \o SubChunksFromGt(ws, maxms, cand + 1, cand + 1, end_idx)
         ELSE SubChunksFromGt(ws, maxms, sub_start, cand + 1, end_idx)

\* SubChunksFrom closing a sub-chunk before the word that would take it
\* over max_chunk_ms, instead of after the word that reaches it
RECURSIVE SubChunksFromCutBefore(_, _, _, _, _)
SubChunksFromCutBefore(ws, maxms, sub_start, cand, end_idx) ==
    IF cand > end_idx
    THEN IF sub_start <= end_idx THEN <<MkChunk(ws, sub_start, end_idx)>> ELSE <<>>
    ELSE IF SecToMs(ws[cand].end - ws[sub_start].start) > maxms /\ cand > sub_start
         THEN <<MkChunk(ws, sub_start, cand - 1)>>
                  \o SubChunksFromCutBefore(ws, maxms, cand, cand, end_idx)
         ELSE SubChunksFromCutBefore(ws, maxms, sub_start, cand + 1, end_idx)

\* lines 184-212: sub-chunks of the word block, cand being start_idx + k
RECURSIVE SubChunksFrom(_, _, _, _, _)
SubChunksFrom(ws, maxms, sub_start, cand, end_idx) ==
    IF cand > end_idx
    THEN IF sub_start <= end_idx THEN <<MkChunk(ws, sub_start, end_idx)>> ELSE <<>>
    ELSE IF SecToMs(ws[cand].end - ws[sub_start].start) >= maxms
         THEN <<MkChunk(ws, sub_start, cand)>>
                  \o SubChunksFrom(ws, maxms, cand + 1, cand + 1, end_idx)
         ELSE SubChunksFrom(ws, maxms, sub_start, cand + 1, end_idx)

\* lines 173-212 for one chunk
SplitOne(ws, c, maxms) ==
    IF c.duration_ms <= maxms THEN <<c>>
    ELSE SubChunksFrom(ws, maxms, c.word_indices[1], c.word_indices[1], c.word_indices[2])

RECURSIVE SplitFrom(_, _, _, _)
SplitFrom(ws, cs, maxms, i) ==
    IF i > Len(cs) THEN <<>>
    ELSE SplitOne(ws, cs[i], maxms) \o SplitFrom(ws, cs, maxms, i + 1)

\* SplitChunks followed by a second merge pass over the sub-chunks
SplitChunksMergedAgain(ws, cs, maxms) ==
    MergeChunks(IF Truthy(maxms) /\ cs # <<>> THEN SplitFrom(ws, cs, maxms, 1) ELSE cs,
                min_chunk_ms)

\* lines 171-214
SplitChunks(ws, cs, maxms) ==
    IF Truthy(maxms) /\ cs # <<>> THEN SplitFrom(ws, cs, maxms, 1) ELSE cs

\* lines 217-224
FinalChunks(cs) ==
    [i \in 1..Len(cs) |-> [raw_text |-> cs[i].raw_text, duration_ms |-> cs[i].duration_ms]]

----------------------------------------------------------------------------
(* Inputs of the pacing segmenter *)

\* the <<start, end>> of a word, in whole seconds: any order of the words'
\* times, and an end up to one second before the start
TimePairs == {p \in (0..MaxTime) \X (0..MaxTime) : p[2] >= p[1] - 1}

\* the word list with the given (start, end) pairs; the text of word i is i
MkWords(times) ==
    [i \in 1..Len(times) |-> [text |-> i, start |-> times[i][1], end |-> times[i][2]]]

WordLists ==
    {MkWords(t) : t \in UNION {[1..n -> TimePairs] : n \in 0..MaxWords}}

\* word i spoken from 2(i-1) to 2(i-1)+1 seconds
SpacedWords(n) == [i \in 1..n |-> [text |-> i, start |-> 2 * (i - 1), end |-> 2 * (i - 1) + 1]]

\* word lists in which one word lacks one key
MalformedWordLists ==
    UNION { { [SpacedWords(n) EXCEPT ![i] = DropKey(@, k)] :
                i \in 1..n, k \in {"text", "start", "end"} } : n \in 1..MaxWords }

\* word lists with silences of one second: a long chunk, a short one and a
\* long one; two long chunks and a short one; a short chunk that reaches the
\* minimum with the next one, followed by a short and a long chunk
ExampleWordLists ==
    { MkWords(<< <<0, 2>>, <<3, 3>>, <<4, 6>> >>),
      MkWords(<< <<0, 2>>, <<3, 5>>, <<6, 6>> >>),
      MkWords(<< <<0, 0>>, <<1, 2>>, <<3, 3>>, <<4, 6>> >>) }

ConfigKeys == {"min_silence_len_ms", "min_chunk_duration_s", "max_chunk_duration_s"}

\* min_silence_len_ms in milliseconds, the durations in half milliseconds
ConfigValues(k) ==
    IF k = "min_silence_len_ms" THEN {2000}
    ELSE IF k = "min_chunk_duration_s" THEN {0, 4000}
    ELSE {2000, 4001}

AllConfigValues == UNION {ConfigValues(k) : k \in ConfigKeys}

ChunkConfigs ==
    UNION { {cfg \in [ks -> AllConfigValues] : \A k \in ks : cfg[k] \in ConfigValues(k)} :
              ks \in SUBSET ConfigKeys }

NoChunks == <<>>

\* no ImageGenerator in use
IdleImage ==
    /\ gemini_has_failed = FALSE
    /\ bytez_model = FALSE
    /\ image_calls = <<>>

\* Orchestrator.__init__, lines 50-52, with an empty run directory
IdlePipeline ==
    /\ current_stage = "INIT"
    /\ step_no = 1
    /\ files = {}
    /\ script_content = FALSE
    /\ asset_paths = {}
    /\ analysis_result = FALSE
    /\ prompts_result = FALSE
    /\ run_result = "running"
    /\ stage_log = <<>>
    /\ unset_reads = {}

\* nothing formatted on its own, and the first call on the object
IdleAux ==
    /\ seconds_arg = 0
    /\ formatted = <<>>
    /\ call_no = 1
    /\ first_output = <<>>
    /\ IdleImage
    /\ IdlePipeline

InitPacing ==
    /\ IdleAux
    /\ pc = "process"
    /\ raised = "none"
    /\ \/ words \in WordLists /\ chunk_config \in ChunkConfigs
       \/ words \in MalformedWordLists /\ chunk_config \in ChunkConfigs
       \/ words \in ExampleWordLists /\ chunk_config \in ChunkConfigs
    /\ min_silence_ms = 0
    /\ min_chunk_ms = 0
    /\ max_chunk_ms = 0
    /\ pacing_chunks = NoChunks
    /\ merged = NoChunks
    /\ final_chunks = NoChunks
    /\ word_timestamps = <<>>
    /\ heading_strings = <<>>
    /\ line_rules = <<>>
    /\ time_offset_s = 0
    /\ kwargs = [audio_bytes |-> FALSE, analyzer_config |-> FALSE]
    /\ h_next = 0
    /\ aligned_headings = <<>>
    /\ used_word_indices = {}
    /\ dialogue_entries = <<>>
    /\ document = [header |-> FALSE, dialogue |-> <<>>]

----------------------------------------------------------------------------
(* Actions of the pacing segmenter *)

\* process(), lines 49-58: the thresholds are read and the segmenter is called
ReadChunkConfig ==
    /\ pc = "process"
    /\ min_silence_ms' = ReadMinSilenceMs(chunk_config)
    /\ min_chunk_ms' = ReadDurationMs(chunk_config, "min_chunk_duration_s")
    /\ max_chunk_ms' = ReadDurationMs(chunk_config, "max_chunk_duration_s")
    /\ pc' = "segment"
    /\ UNCHANGED <<subVars, raised, words, chunk_config, pacing_chunks, merged, final_chunks>>
    /\ UNCHANGED auxVars

\* lines 94-95: no words, nothing to segment
ReturnNoChunks ==
    /\ pc = "segment"
    /\ words = <<>>
    /\ pc' = "returned"
    /\ UNCHANGED <<subVars, raised, pacingVars>>
    /\ UNCHANGED auxVars

\* lines 96-139: the split at silences; a missing key raises KeyError, which
\* process() re-raises as RuntimeError (lines 65-67)
InitialSplit ==
    /\ pc = "segment"
    /\ words # <<>>
    /\ LET r == InitialSplitFrom(words, min_silence_ms, 1, 1)
       IN  IF r.raised
           THEN /\ raised' = "KeyError"
                /\ pc' = "failed"
                /\ UNCHANGED pacing_chunks
           ELSE /\ pacing_chunks' = r.chunks
                /\ pc' = "merge"
                /\ UNCHANGED raised
    /\ UNCHANGED <<subVars, words, chunk_config, min_silence_ms, min_chunk_ms,
                   max_chunk_ms, merged, final_chunks>>
    /\ UNCHANGED auxVars

\* lines 141-168
MergePass ==
    /\ pc = "merge"
    /\ pacing_chunks' = MergeChunks(pacing_chunks, min_chunk_ms)
    /\ merged' = pacing_chunks'
    /\ pc' = "split"
    /\ UNCHANGED <<subVars, raised, words, chunk_config, min_silence_ms, min_chunk_ms,
                   max_chunk_ms, final_chunks>>
    /\ UNCHANGED auxVars

\* lines 170-214
SplitPass ==
    /\ pc = "split"
    /\ pacing_chunks' = SplitChunks(words, pacing_chunks, max_chunk_ms)
    /\ pc' = "finalize"
    /\ UNCHANGED <<subVars, raised, words, chunk_config, min_silence_ms, min_chunk_ms,
                   max_chunk_ms, merged, final_chunks>>
    /\ UNCHANGED auxVars

\* lines 216-224
Finalize ==
    /\ pc = "finalize"
    /\ final_chunks' = FinalChunks(pacing_chunks)
    /\ pc' = "returned"
    /\ UNCHANGED <<subVars, raised, words, chunk_config, min_silence_ms, min_chunk_ms,
                   max_chunk_ms, pacing_chunks, merged>>
    /\ UNCHANGED auxVars

NextPacing ==
    \/ ReadChunkConfig
    \/ ReturnNoChunks
    \/ InitialSplit
    \/ MergePass
    \/ SplitPass
    \/ Finalize

SpecPacing == InitPacing /\ [][NextPacing]_vars

----------------------------------------------------------------------------
(* SubtitleProcessor: texts                                                *)
(*                                                                         *)
(* A text is a sequence of characters (one-character strings).  Times of   *)
(* the subtitle builder are in ticks of 1/TicksPerMs millisecond, exact.   *)

EmptyText == <<>>

\* str.lower() on the letters in use
Lower(c) == IF c = "A" THEN "a" ELSE IF c = "B" THEN "b" ELSE c

\* \w and \s of the regular expressions, on the characters in use
WordChars == {"a", "b", "A", "B"}

SpaceChars == {" ", "\n"}

IsWordOrSpace(c) == c \in WordChars \cup SpaceChars

\* re.sub(r'\s+', ' ', text)
RECURSIVE CollapseSpaces(_)
CollapseSpaces(t) ==
    IF t = <<>> THEN <<>>
    ELSE IF Head(t) \in SpaceChars
         THEN IF Len(t) >= 2 /\ t[2] \in SpaceChars
              THEN CollapseSpaces(Tail(t))
              ELSE <<" ">> \o CollapseSpaces(Tail(t))
         ELSE <<Head(t)>> \o CollapseSpaces(Tail(t))

\* str.strip()
RECURSIVE StripLeft(_)
StripLeft(t) ==
    IF t # <<>> /\ Head(t) \in SpaceChars THEN StripLeft(Tail(t)) ELSE t

RECURSIVE StripRight(_)
StripRight(t) ==
    IF t # <<>> /\ t[Len(t)] \in SpaceChars THEN StripRight(SubSeq(t, 1, Len(t) - 1)) ELSE t

Strip(t) == StripRight(StripLeft(t))

\* _normalize_text_for_matching, lines 35-41
NormalizeTextForMatching(text) ==
    IF text = <<>> THEN EmptyText
    ELSE Strip(CollapseSpaces(SelectSeq([i \in 1..Len(text) |-> Lower(text[i])], IsWordOrSpace)))

\* str.split(): the maximal runs of non-space characters
RECURSIVE StrSplitAcc(_, _)
StrSplitAcc(t, cur) ==
    IF t = <<>> THEN (IF cur = <<>> THEN <<>> ELSE <<cur>>)
    ELSE IF Head(t) \in SpaceChars
         THEN (IF cur = <<>> THEN <<>> ELSE <<cur>>) \o StrSplitAcc(Tail(t), <<>>)
         ELSE StrSplitAcc(Tail(t), Append(cur, Head(t)))

StrSplit(t) == StrSplitAcc(t, <<>>)

----------------------------------------------------------------------------
(* difflib.SequenceMatcher(None, a, b, autojunk=False).get_matching_blocks() *)
(* as called at lines 99-103.  Blocks are <<i, j, k>> with 0-based i and j,  *)
(* as in Python: a[i:i+k] == b[j:j+k].                                       *)

BlockMatches(a, b, i, j, k) == \A d \in 0..(k - 1) : a[i + d + 1] = b[j + d + 1]

CandidateBlocks(a, b, alo, ahi, blo, bhi) ==
    { x \in (alo..(ahi - 1)) \X (blo..(bhi - 1)) \X (1..(ahi - alo)) :
        /\ x[1] + x[3] <= ahi
        /\ x[2] + x[3] <= bhi
        /\ BlockMatches(a, b, x[1], x[2], x[3]) }

\* the order in which find_longest_match prefers blocks: the longest, then
\* the one starting earliest in a, then the one starting earliest in b
Preferred(x, y) ==
    \/ x[3] > y[3]
    \/ x[3] = y[3] /\ x[1] < y[1]
    \/ x[3] = y[3] /\ x[1] = y[1] /\ x[2] < y[2]

\* find_longest_match(alo, ahi, blo, bhi) without junk
FindLongestMatch(a, b, alo, ahi, blo, bhi) ==
    LET c == CandidateBlocks(a, b, alo, ahi, blo, bhi)
    IN  IF c = {} THEN <<alo, blo, 0>>
        ELSE CHOOSE x \in c : \A y \in c \ {x} : Preferred(x, y)

\* the blocks collected by the queue loop of get_matching_blocks
RECURSIVE MatchingBlockSet(_, _, _, _, _, _)
MatchingBlockSet(a, b, alo, ahi, blo, bhi) ==
    LET x == FindLongestMatch(a, b, alo, ahi, blo, bhi)
        i == x[1]
        j == x[2]
        k == x[3]
    IN  IF k = 0 THEN {}
        ELSE {x}
             \cup (IF alo < i /\ blo < j
                   THEN MatchingBlockSet(a, b, alo, i, blo, j) ELSE {})
             \cup (IF i + k < ahi /\ j + k < bhi
                   THEN MatchingBlockSet(a, b, i + k, ahi, j + k, bhi) ELSE {})

\* tuple comparison of matching_blocks.sort()
BlockLess(x, y) ==
    \/ x[1] < y[1]
    \/ x[1] = y[1] /\ x[2] < y[2]
    \/ x[1] = y[1] /\ x[2] = y[2] /\ x[3] < y[3]

RECURSIVE SortBlocks(_)
SortBlocks(S) ==
    IF S = {} THEN <<>>
    ELSE LET m == CHOOSE x \in S : \A y \in S \ {x} : BlockLess(x, y)
         IN  <<m>> \o SortBlocks(S \ {m})

\* adjacent blocks are collapsed into one
RECURSIVE CollapseAdjacent(_, _)
CollapseAdjacent(bs, cur) ==
    IF bs = <<>> THEN (IF cur[3] # 0 THEN <<cur>> ELSE <<>>)
    ELSE LET nx == Head(bs)
         IN  IF cur[1] + cur[3] = nx[1] /\ cur[2] + cur[3] = nx[2]
             THEN CollapseAdjacent(Tail(bs), <<cur[1], cur[2], cur[3] + nx[3]>>)
             ELSE (IF cur[3] # 0 THEN <<cur>> ELSE <<>>) \o CollapseAdjacent(Tail(bs), nx)

\* get_matching_blocks(): sorted, collapsed, ended by the sentinel (la, lb, 0)
GetMatchingBlocks(a, b) ==
    CollapseAdjacent(SortBlocks(MatchingBlockSet(a, b, 0, Len(a), 0, Len(b))), <<0, 0, 0>>)
        \o << <<Len(a), Len(b), 0>> >>

----------------------------------------------------------------------------
(* SubtitleProcessor._align_headings *)

\* highest_ratio = 0.7 (line 101), as the fraction <<numerator, denominator>>
\* highest_ratio started at 0.0
InitialHighestRatioZero == <<0, 10>>

InitialHighestRatio == <<7, 10>>

\* the indices range(start_idx, end_idx + 1) of a block, as word positions
\* of the model (1-based)
BlockIndices(m) == (m[2] + 1)..(m[2] + m[3])

\* ScanBlocks accepting a ratio equal to highest_ratio (>= for > at line 115)
RECURSIVE ScanBlocksGe(_, _, _, _, _, _, _)
ScanBlocksGe(bs, heading_text, nwords, wts, used, best, hr) ==
    IF bs = <<>> THEN best
    ELSE LET m == Head(bs)
         IN  IF m[3] = 0 \/ BlockIndices(m) \cap used # {}
             THEN ScanBlocksGe(Tail(bs), heading_text, nwords, wts, used, best, hr)
             ELSE IF m[3] * hr[2] >= hr[1] * nwords
                  THEN ScanBlocksGe(Tail(bs), heading_text, nwords, wts, used,
                                    << [ text    |-> heading_text,
                                         start_s |-> wts[m[2] + 1].start,
                                         end_s   |-> wts[m[2] + m[3]].end,
                                         indices |-> BlockIndices(m),
                                         ratio   |-> <<m[3], nwords>> ] >>,
                                    <<m[3], nwords>>)
                  ELSE ScanBlocksGe(Tail(bs), heading_text, nwords, wts, used, best, hr)

\* the for loop of lines 103-123; best is <<>> (None) or <<best_match>>, hr is
\* highest_ratio, nwords is len(heading_words)
RECURSIVE ScanBlocks(_, _, _, _, _, _, _)
ScanBlocks(bs, heading_text, nwords, wts, used, best, hr) ==
    IF bs = <<>> THEN best
    ELSE LET m == Head(bs)
         IN  IF m[3] = 0 \/ BlockIndices(m) \cap used # {}
             THEN ScanBlocks(Tail(bs), heading_text, nwords, wts, used, best, hr)
             ELSE IF m[3] * hr[2] > hr[1] * nwords
                  THEN ScanBlocks(Tail(bs), heading_text, nwords, wts, used,
                                  << [ text    |-> heading_text,
                                       start_s |-> wts[m[2] + 1].start,
                                       end_s   |-> wts[m[2] + m[3]].end,
                                       indices |-> BlockIndices(m),
                                       ratio   |-> <<m[3], nwords>> ] >>,
                                  <<m[3], nwords>>)
                  ELSE ScanBlocks(Tail(bs), heading_text, nwords, wts, used, best, hr)

\* line 90
SttNormalizedWords(wts) == [i \in 1..Len(wts) |-> NormalizeTextForMatching(wts[i].text)]

\* BestMatchFor with the normalized heading stored as the text of the match
BestMatchForNormalizedText(heading_text, wts, used) ==
    LET normalized_heading == NormalizeTextForMatching(heading_text)
        heading_words == StrSplit(normalized_heading)
    IN  IF normalized_heading = EmptyText THEN <<>>
        ELSE ScanBlocks(GetMatchingBlocks(heading_words, SttNormalizedWords(wts)),
                        normalized_heading, Len(heading_words), wts, used,
                        <<>>, InitialHighestRatio)

\* lines 95-123 for one heading: <<>> or <<best_match>>
BestMatchFor(heading_text, wts, used) ==
    LET normalized_heading == NormalizeTextForMatching(heading_text)
        heading_words == StrSplit(normalized_heading)
    IN  IF normalized_heading = EmptyText THEN <<>>
        ELSE ScanBlocks(GetMatchingBlocks(heading_words, SttNormalizedWords(wts)),
                        heading_text, Len(heading_words), wts, used,
                        <<>>, InitialHighestRatio)

\* list.sort(key=start_s), stable: x goes behind the elements with key <= its own
RECURSIVE InsertByStartS(_, _)
InsertByStartS(sorted, x) ==
    IF sorted = <<>> THEN <<x>>
    ELSE IF x.start_s < Head(sorted).start_s THEN <<x>> \o sorted
         ELSE <<Head(sorted)>> \o InsertByStartS(Tail(sorted), x)

RECURSIVE SortByStartS(_)
SortByStartS(s) ==
    IF s = <<>> THEN <<>>
    ELSE InsertByStartS(SortByStartS(SubSeq(s, 1, Len(s) - 1)), s[Len(s)])

----------------------------------------------------------------------------
(* SubtitleProcessor._format_ass_time *)

TicksPerMs == 10

OneSecond == 1000 * TicksPerMs

\* round(seconds * 1000.0): to the nearest millisecond, ties to the even one
PyRoundMs(t) ==
    LET q == t \div TicksPerMs
        r2 == 2 * (t % TicksPerMs)
    IN  IF r2 < TicksPerMs THEN q
        ELSE IF r2 > TicksPerMs THEN q + 1
        ELSE IF q % 2 = 0 THEN q ELSE q + 1

\* strings of digits are sequences of character codes: '0' is 48, '.' 46, ':' 58
DigitChar(d) == 48 + d

\* f"{n:d}"
RECURSIVE DecimalDigits(_)
DecimalDigits(n) ==
    IF n < 10 THEN <<DigitChar(n)>>
    ELSE Append(DecimalDigits(n \div 10), DigitChar(n % 10))

\* f"{n:02d}"
TwoDigits(n) == IF n < 10 THEN <<DigitChar(0), DigitChar(n)>> ELSE DecimalDigits(n)

\* FormatAssTime without the zero padding of minutes, seconds and centiseconds
FormatAssTimeUnpadded(t) ==
    LET seconds == IF t < 0 THEN 0 ELSE t
        ms0 == PyRoundMs(seconds)
        hours == ms0 \div 3600000
        ms1 == ms0 % 3600000
        minutes == ms1 \div 60000
        ms2 == ms1 % 60000
        secs == ms2 \div 1000
        ms3 == ms2 % 1000
        centiseconds == ms3 \div 10
    IN  DecimalDigits(hours) \o <<58>> \o DecimalDigits(minutes) \o <<58>>
            \o DecimalDigits(secs) \o <<46>> \o DecimalDigits(centiseconds)

\* _format_ass_time, lines 24-33: H:MM:SS.cc
FormatAssTime(t) ==
    LET seconds == IF t < 0 THEN 0 ELSE t
        ms0 == PyRoundMs(seconds)
        hours == ms0 \div 3600000
        ms1 == ms0 % 3600000
        minutes == ms1 \div 60000
        ms2 == ms1 % 60000
        secs == ms2 \div 1000
        ms3 == ms2 % 1000
        centiseconds == ms3 \div 10
    IN  DecimalDigits(hours) \o <<58>> \o TwoDigits(minutes) \o <<58>>
            \o TwoDigits(secs) \o <<46>> \o TwoDigits(centiseconds)

\* str < str: lexicographic on character codes, a proper prefix being smaller
RECURSIVE StrLess(_, _)
StrLess(a, b) ==
    IF b = <<>> THEN FALSE
    ELSE IF a = <<>> THEN TRUE
    ELSE IF Head(a) < Head(b) THEN TRUE
    ELSE IF Head(a) > Head(b) THEN FALSE
    ELSE StrLess(Tail(a), Tail(b))

----------------------------------------------------------------------------
(* SubtitleProcessor.process *)

DefaultMaxWords == 7

DefaultMaxDuration == 12 * OneSecond

DefaultGapThreshold == (4 * OneSecond) \div 10

\* heading['text'].replace('\n', '\\N'), line 188
RECURSIVE ReplaceNewlines(_)
ReplaceNewlines(t) ==
    IF t = <<>> THEN <<>>
    ELSE (IF Head(t) = "\n" THEN <<"\\", "N">> ELSE <<Head(t)>>) \o ReplaceNewlines(Tail(t))

\* HeadingEntry without the time offset
HeadingEntryNoOffset(h, offset) ==
    [ start_time |-> FormatAssTime(h.start_s),
      end_time   |-> FormatAssTime(h.end_s),
      style      |-> "HeadingStyle",
      text       |-> <<ReplaceNewlines(h.text)>>,
      indices    |-> h.indices ]

\* a Dialogue line: "Dialogue: 0,{start_time},{end_time},{style},,0,0,0,,{text}".
\* indices is not part of the line: it records the words the cue was built from.
HeadingEntry(h, offset) ==
    [ start_time |-> FormatAssTime(h.start_s + offset),
      end_time   |-> FormatAssTime(h.end_s + offset),
      style      |-> "HeadingStyle",
      text       |-> <<ReplaceNewlines(h.text)>>,
      indices    |-> h.indices ]

\* LineEntry with the first and the last word exchanged
LineEntrySwapped(wts, cur, offset) ==
    [ start_time |-> FormatAssTime(wts[cur[Len(cur)]].start + offset),
      end_time   |-> FormatAssTime(wts[cur[1]].end + offset),
      style      |-> "Default",
      text       |-> [k \in 1..Len(cur) |-> wts[cur[k]].text],
      indices    |-> {cur[k] : k \in 1..Len(cur)} ]

\* LineEntry whose end is taken from the word after the last word of the line
LineEntryToNextWord(wts, cur, offset) ==
    [ start_time |-> FormatAssTime(wts[cur[1]].start + offset),
      end_time   |-> FormatAssTime(wts[IF cur[Len(cur)] < Len(wts) THEN cur[Len(cur)] + 1
                                       ELSE cur[Len(cur)]].end + offset),
      style      |-> "Default",
      text       |-> [k \in 1..Len(cur) |-> wts[cur[k]].text],
      indices    |-> {cur[k] : k \in 1..Len(cur)} ]

\* lines 202-206, 221-225, 231-235: the line of the words at positions cur
LineEntry(wts, cur, offset) ==
    [ start_time |-> FormatAssTime(wts[cur[1]].start + offset),
      end_time   |-> FormatAssTime(wts[cur[Len(cur)]].end + offset),
      style      |-> "Default",
      text       |-> [k \in 1..Len(cur) |-> wts[cur[k]].text],
      indices    |-> {cur[k] : k \in 1..Len(cur)} ]

FlushLine(wts, cur, offset) == IF cur # <<>> THEN <<LineEntry(wts, cur, offset)>> ELSE <<>>

\* GroupWords without the flush of lines 201-207 before a heading word
RECURSIVE GroupWordsNoFlush(_, _, _, _, _, _, _, _)
GroupWordsNoFlush(wts, used, max_words, max_duration, gap_threshold, offset, i, cur) ==
    IF i > Len(wts) THEN FlushLine(wts, cur, offset)
    ELSE IF i \in used
         THEN GroupWordsNoFlush(wts, used, max_words, max_duration, gap_threshold, offset,
                                i + 1, <<>>)
         ELSE LET start_new_line ==
                      \/ cur = <<>>
                      \/ Len(cur) >= max_words
                      \/ wts[i].end - wts[cur[1]].start > max_duration
                      \/ wts[i].start - wts[i - 1].end > gap_threshold
              IN  IF start_new_line /\ cur # <<>>
                  THEN <<LineEntry(wts, cur, offset)>>
                           \o GroupWordsNoFlush(wts, used, max_words, max_duration,
                                                gap_threshold, offset, i + 1, <<i>>)
                  ELSE GroupWordsNoFlush(wts, used, max_words, max_duration, gap_threshold,
                                         offset, i + 1, Append(cur, i))

\* GroupWords with '>' for the '>=' of the word count test of line 218
RECURSIVE GroupWordsGt(_, _, _, _, _, _, _, _)
GroupWordsGt(wts, used, max_words, max_duration, gap_threshold, offset, i, cur) ==
    IF i > Len(wts) THEN FlushLine(wts, cur, offset)
    ELSE IF i \in used
         THEN FlushLine(wts, cur, offset)
                  \o GroupWordsGt(wts, used, max_words, max_duration, gap_threshold, offset,
                                  i + 1, <<>>)
         ELSE LET start_new_line ==
                      \/ cur = <<>>
                      \/ Len(cur) > max_words
                      \/ wts[i].end - wts[cur[1]].start > max_duration
                      \/ wts[i].start - wts[i - 1].end > gap_threshold
              IN  IF start_new_line /\ cur # <<>>
                  THEN <<LineEntry(wts, cur, offset)>>
                           \o GroupWordsGt(wts, used, max_words, max_duration, gap_threshold,
                                           offset, i + 1, <<i>>)
                  ELSE GroupWordsGt(wts, used, max_words, max_duration, gap_threshold,
                                    offset, i + 1, Append(cur, i))

\* GroupWords without the line_dur test of line 218
RECURSIVE GroupWordsNoDuration(_, _, _, _, _, _, _, _)
GroupWordsNoDuration(wts, used, max_words, max_duration, gap_threshold, offset, i, cur) ==
    IF i > Len(wts) THEN FlushLine(wts, cur, offset)
    ELSE IF i \in used
         THEN FlushLine(wts, cur, offset)
                  \o GroupWordsNoDuration(wts, used, max_words, max_duration, gap_threshold, offset,
                                i + 1, <<>>)
         ELSE LET start_new_line ==
                      \/ cur = <<>>
                      \/ Len(cur) >= max_words
                      \/ wts[i].start - wts[i - 1].end > gap_threshold
              IN  IF start_new_line /\ cur # <<>>
                  THEN <<LineEntry(wts, cur, offset)>>
                           \o GroupWordsNoDuration(wts, used, max_words, max_duration, gap_threshold,
                                         offset, i + 1, <<i>>)
                  ELSE GroupWordsNoDuration(wts, used, max_words, max_duration, gap_threshold,
                                  offset, i + 1, Append(cur, i))

\* GroupWords with '>=' for the '>' of the gap test of line 218
RECURSIVE GroupWordsGapGe(_, _, _, _, _, _, _, _)
GroupWordsGapGe(wts, used, max_words, max_duration, gap_threshold, offset, i, cur) ==
    IF i > Len(wts) THEN FlushLine(wts, cur, offset)
    ELSE IF i \in used
         THEN FlushLine(wts, cur, offset)
                  \o GroupWordsGapGe(wts, used, max_words, max_duration, gap_threshold, offset,
                                i + 1, <<>>)
         ELSE LET start_new_line ==
                      \/ cur = <<>>
                      \/ Len(cur) >= max_words
                      \/ wts[i].end - wts[cur[1]].start > max_duration
                      \/ wts[i].start - wts[i - 1].end >= gap_threshold
              IN  IF start_new_line /\ cur # <<>>
                  THEN <<LineEntry(wts, cur, offset)>>
                           \o GroupWordsGapGe(wts, used, max_words, max_duration, gap_threshold,
                                         offset, i + 1, <<i>>)
                  ELSE GroupWordsGapGe(wts, used, max_words, max_duration, gap_threshold,
                                  offset, i + 1, Append(cur, i))

\* GroupWords that skips a heading word and keeps the pending line (no
\* flush and no reset at lines 200-207)
RECURSIVE GroupWordsKeepLine(_, _, _, _, _, _, _, _)
GroupWordsKeepLine(wts, used, max_words, max_duration, gap_threshold, offset, i, cur) ==
    IF i > Len(wts) THEN FlushLine(wts, cur, offset)
    ELSE IF i \in used
         THEN GroupWordsKeepLine(wts, used, max_words, max_duration, gap_threshold,
                                 offset, i + 1, cur)
         ELSE LET start_new_line ==
                      \/ cur = <<>>
                      \/ Len(cur) >= max_words
                      \/ wts[i].end - wts[cur[1]].start > max_duration
                      \/ wts[i].start - wts[i - 1].end > gap_threshold
              IN  IF start_new_line /\ cur # <<>>
                  THEN <<LineEntry(wts, cur, offset)>>
                           \o GroupWordsKeepLine(wts, used, max_words, max_duration, gap_threshold,
                                         offset, i + 1, <<i>>)
                  ELSE GroupWordsKeepLine(wts, used, max_words, max_duration, gap_threshold,
                                  offset, i + 1, Append(cur, i))

\* the for loop of lines 198-235 from word i on, cur being the positions of
\* current_line_words
RECURSIVE GroupWords(_, _, _, _, _, _, _, _)
GroupWords(wts, used, max_words, max_duration, gap_threshold, offset, i, cur) ==
    IF i > Len(wts) THEN FlushLine(wts, cur, offset)
    ELSE IF i \in used
         THEN FlushLine(wts, cur, offset)
                  \o GroupWords(wts, used, max_words, max_duration, gap_threshold, offset,
                                i + 1, <<>>)
         ELSE LET start_new_line ==
                      \/ cur = <<>>
                      \/ Len(cur) >= max_words
                      \/ wts[i].end - wts[cur[1]].start > max_duration
                      \/ wts[i].start - wts[i - 1].end > gap_threshold
              IN  IF start_new_line /\ cur # <<>>
                  THEN <<LineEntry(wts, cur, offset)>>
                           \o GroupWords(wts, used, max_words, max_duration, gap_threshold,
                                         offset, i + 1, <<i>>)
                  ELSE GroupWords(wts, used, max_words, max_duration, gap_threshold,
                                  offset, i + 1, Append(cur, i))

\* key=lambda x: x.split(',')[1]: the start_time field, compared as a string
SortKeyLess(x, y) == StrLess(x.start_time, y.start_time)

\* dialogue_entries.sort(key=...), stable
RECURSIVE InsertEntry(_, _)
InsertEntry(sorted, x) ==
    IF sorted = <<>> THEN <<x>>
    ELSE IF SortKeyLess(x, Head(sorted)) THEN <<x>> \o sorted
         ELSE <<Head(sorted)>> \o InsertEntry(Tail(sorted), x)

RECURSIVE SortEntries(_)
SortEntries(s) ==
    IF s = <<>> THEN <<>>
    ELSE InsertEntry(SortEntries(SubSeq(s, 1, Len(s) - 1)), s[Len(s)])

\* header + "\n".join(dialogue_entries); the header text is not modelled
Document(entries) == [header |-> TRUE, dialogue |-> entries]

NoDocument == [header |-> FALSE, dialogue |-> <<>>]

----------------------------------------------------------------------------
(* Inputs of the subtitle builder *)

\* word texts " A", "b." and "-"
WordTexts == { <<" ", "A">>, <<"b", ".">>, <<"-">> }

\* heading texts "A b", "b.", "b" newline "a", "!" and "a b a"
HeadingTexts ==
    { <<"A", " ", "b">>, <<"b", ".">>, <<"b", "\n", "a">>, <<"!">>,
      <<"a", " ", "b", " ", "a">> }

\* word i spoken for 0.3 s, 0.1 s after word i-1
EvenlyTimed(texts) ==
    [i \in 1..Len(texts) |->
        [text |-> texts[i], start |-> (i - 1) * 4000, end |-> (i - 1) * 4000 + 3000]]

\* the silence before a word and the length of a word, in ticks; a negative
\* value breaks the input contract
WordGaps == {-6000, 0, 5000}

WordDurations == {-1000, 3000}

\* words " A", "b.", " A", ... with the given <<gap, duration>> pairs
RECURSIVE TimedFrom(_, _, _)
TimedFrom(gd, i, prev_end) ==
    IF i > Len(gd) THEN <<>>
    ELSE LET s == prev_end + gd[i][1]
             e == s + gd[i][2]
         IN  << [ text  |-> IF i % 2 = 1 THEN <<" ", "A">> ELSE <<"b", ".">>,
                  start |-> s, end |-> e ] >> \o TimedFrom(gd, i + 1, e)

TimedWordLists ==
    { TimedFrom(gd, 1, 0) :
        gd \in UNION {[1..n -> WordGaps \X WordDurations] : n \in 1..MaxWords} }

TextWordLists ==
    { EvenlyTimed(t) : t \in UNION {[1..n -> WordTexts] : n \in 1..MaxWords} }

HeadingLists == UNION {[1..n -> HeadingTexts] : n \in 0..MaxHeadings}

\* the heading "a a a a a a a a b b": ten tokens, of which eight are equal
LongHeading ==
    << "a", " ", "a", " ", "a", " ", "a", " ", "a", " ", "a", " ", "a", " ", "a", " ",
       "b", " ", "b" >>

\* n times the word "a"
RepeatedWordLists == { EvenlyTimed([i \in 1..n |-> <<"a">>]) : n \in 1..MaxRepeats }

\* eight times the word "a", then "-" and "b": the run of equal words is
\* interrupted before the "b"
InterruptedWords ==
    EvenlyTimed([i \in 1..10 |-> IF i <= 8 THEN <<"a">> ELSE IF i = 9 THEN <<"-">> ELSE <<"b">>])

\* heading lists used with the timed words: none, "b.", "A b", "b a"
FewHeadingLists ==
    { <<>>, << <<"b", ".">> >>, << <<"A", " ", "b">> >>, << <<"b", " ", "a">> >> }

LineRuleKeys == {"max_words_per_line", "max_line_duration_s", "gap_threshold_s"}

\* the configured value of a line rule: 2 words, 0.6 s, 0.0 s
LineRuleValue(k) ==
    IF k = "max_words_per_line" THEN 2
    ELSE IF k = "max_line_duration_s" THEN 6000 ELSE 0

\* style_config['line_rules']: nothing configured, or one rule
LineRuleDicts ==
    { [k \in ks |-> LineRuleValue(k)] : ks \in {{}} \cup {{k} : k \in LineRuleKeys} }

NoLineRules == [k \in {} |-> 0]

\* time_offset_s: none, and 9 h 59 min 59.5 s
TimeOffsets == {0, 35999 * OneSecond + 5000}

\* what the fallback AudioAnalyzer.process can return as word_timestamps
FallbackWordLists == { <<>>, EvenlyTimed(<< <<" ", "A">>, <<"b", ".">> >>) }

NoFallback == [audio_bytes |-> FALSE, analyzer_config |-> FALSE]

\* FallbackImpossible with 'and' for the 'or' of line 158
FallbackImpossibleBothMissing(kw) == ~kw.audio_bytes /\ ~kw.analyzer_config

\* line 158: the fallback analysis cannot run
FallbackImpossible(kw) == ~kw.audio_bytes \/ ~kw.analyzer_config

\* AlignOne without the used_word_indices.update of line 129
AlignOneNoUpdate(heading_text, wts, st) ==
    LET best == BestMatchFor(heading_text, wts, st.used)
    IN  IF best # <<>> /\ best[1].indices \cap st.used = {}
        THEN [aligned |-> Append(st.aligned, best[1]),
              used    |-> st.used]
        ELSE st

\* lines 125-129 after the scan of one heading: st is the pair of
\* aligned_headings and used_word_indices
AlignOne(heading_text, wts, st) ==
    LET best == BestMatchFor(heading_text, wts, st.used)
    IN  IF best # <<>> /\ best[1].indices \cap st.used = {}
        THEN [aligned |-> Append(st.aligned, best[1]),
              used    |-> st.used \cup best[1].indices]
        ELSE st

\* lines 185-190
HeadingEntries(aligned, offset) ==
    [k \in 1..Len(aligned) |-> HeadingEntry(aligned[k], offset)]

\* lines 183-235
BuildDialogueEntries(wts, aligned, used, rules, offset) ==
    HeadingEntries(aligned, offset)
        \o GroupWords(wts, used,
                      DictGet(rules, "max_words_per_line", DefaultMaxWords),
                      DictGet(rules, "max_line_duration_s", DefaultMaxDuration),
                      DictGet(rules, "gap_threshold_s", DefaultGapThreshold),
                      offset, 1, <<>>)

EmptyDict == [k \in {} |-> 0]

IdlePacing ==
    /\ words = <<>>
    /\ chunk_config = EmptyDict
    /\ min_silence_ms = 0
    /\ min_chunk_ms = 0
    /\ max_chunk_ms = 0
    /\ pacing_chunks = NoChunks
    /\ merged = NoChunks
    /\ final_chunks = NoChunks

InitSub ==
    /\ IdleAux
    /\ pc = "sub_process"
    /\ raised = "none"
    /\ IdlePacing
    /\ h_next = 0
    /\ aligned_headings = <<>>
    /\ used_word_indices = {}
    /\ dialogue_entries = <<>>
    /\ document = NoDocument
    /\ \/ /\ word_timestamps \in TextWordLists
          /\ heading_strings \in HeadingLists
          /\ line_rules = NoLineRules
          /\ time_offset_s = 0
          /\ kwargs = NoFallback
       \/ /\ word_timestamps \in TimedWordLists
          /\ heading_strings \in FewHeadingLists
          /\ line_rules \in LineRuleDicts
          /\ time_offset_s \in TimeOffsets
          /\ kwargs = NoFallback
       \/ /\ word_timestamps \in RepeatedWordLists \cup {InterruptedWords}
          /\ heading_strings \in { <<>>, <<LongHeading>>, << <<"a">>, LongHeading >> }
          /\ line_rules = NoLineRules
          /\ time_offset_s = 0
          /\ kwargs = NoFallback
       \/ /\ word_timestamps = <<>>
          /\ heading_strings \in FewHeadingLists
          /\ line_rules = NoLineRules
          /\ time_offset_s = 0
          /\ kwargs \in [audio_bytes : BOOLEAN, analyzer_config : BOOLEAN]

----------------------------------------------------------------------------
(* Actions of the subtitle builder *)

\* lines 156-159: no words and no way to analyse the audio
RaiseNoFallback ==
    /\ pc = "sub_process"
    /\ word_timestamps = <<>>
    /\ FallbackImpossible(kwargs)
    /\ raised' = "ValueError"
    /\ pc' = "failed"
    /\ UNCHANGED <<pacingVars, subVars>>
    /\ UNCHANGED auxVars

\* lines 161-169: the fallback analysis raises, finds no word (the header
\* alone is returned) or supplies the words
FallbackAnalysis ==
    /\ pc = "sub_process"
    /\ word_timestamps = <<>>
    /\ ~FallbackImpossible(kwargs)
    /\ \/ /\ raised' = "RuntimeError"
          /\ pc' = "failed"
          /\ UNCHANGED <<word_timestamps, document>>
       \/ \E w \in FallbackWordLists :
             IF w = <<>>
             THEN /\ document' = Document(<<>>)
                  /\ pc' = "returned"
                  /\ UNCHANGED <<raised, word_timestamps>>
             ELSE /\ word_timestamps' = w
                  /\ pc' = "main"
                  /\ UNCHANGED <<raised, document>>
    /\ UNCHANGED <<pacingVars, heading_strings, line_rules, time_offset_s, kwargs,
                   h_next, aligned_headings, used_word_indices, dialogue_entries>>
    /\ UNCHANGED auxVars

\* BeginAlign with used_word_indices kept on the object instead of the fresh
\* set() of line 92
BeginAlignKeepUsed ==
    /\ \/ pc = "sub_process" /\ word_timestamps # <<>>
       \/ pc = "main"
    /\ aligned_headings' = <<>>
    /\ h_next' = 1
    /\ pc' = IF heading_strings = <<>> \/ word_timestamps = <<>> THEN "entries" ELSE "align"
    /\ UNCHANGED <<raised, pacingVars, word_timestamps, heading_strings, line_rules,
                   time_offset_s, kwargs, used_word_indices, dialogue_entries, document>>
    /\ UNCHANGED auxVars

\* lines 171-181 and 84-92: _align_headings is entered; without headings it
\* returns at once
BeginAlign ==
    /\ \/ pc = "sub_process" /\ word_timestamps # <<>>
       \/ pc = "main"
    /\ aligned_headings' = <<>>
    /\ used_word_indices' = {}
    /\ h_next' = 1
    /\ pc' = IF heading_strings = <<>> \/ word_timestamps = <<>> THEN "entries" ELSE "align"
    /\ UNCHANGED <<raised, pacingVars, word_timestamps, heading_strings, line_rules,
                   time_offset_s, kwargs, dialogue_entries, document>>
    /\ UNCHANGED auxVars

\* lines 94-130: one heading of the for loop
AlignHeading ==
    /\ pc = "align"
    /\ h_next <= Len(heading_strings)
    /\ LET st == AlignOne(heading_strings[h_next], word_timestamps,
                          [aligned |-> aligned_headings, used |-> used_word_indices])
       IN  /\ aligned_headings' = st.aligned
           /\ used_word_indices' = st.used
    /\ h_next' = h_next + 1
    /\ UNCHANGED <<pc, raised, pacingVars, word_timestamps, heading_strings, line_rules,
                   time_offset_s, kwargs, dialogue_entries, document>>
    /\ UNCHANGED auxVars

\* lines 132-134
FinishAlign ==
    /\ pc = "align"
    /\ h_next > Len(heading_strings)
    /\ aligned_headings' = SortByStartS(aligned_headings)
    /\ pc' = "entries"
    /\ UNCHANGED <<raised, pacingVars, word_timestamps, heading_strings, line_rules,
                   time_offset_s, kwargs, h_next, used_word_indices, dialogue_entries,
                   document>>
    /\ UNCHANGED auxVars

\* lines 183-235
BuildEntries ==
    /\ pc = "entries"
    /\ dialogue_entries' = BuildDialogueEntries(word_timestamps, aligned_headings,
                                                used_word_indices, line_rules, time_offset_s)
    /\ pc' = "sort"
    /\ UNCHANGED <<raised, pacingVars, word_timestamps, heading_strings, line_rules,
                   time_offset_s, kwargs, h_next, aligned_headings, used_word_indices,
                   document>>
    /\ UNCHANGED auxVars

\* lines 237-242
SortAndReturn ==
    /\ pc = "sort"
    /\ dialogue_entries' = SortEntries(dialogue_entries)
    /\ document' = Document(dialogue_entries')
    /\ pc' = "returned"
    /\ UNCHANGED <<raised, pacingVars, word_timestamps, heading_strings, line_rules,
                   time_offset_s, kwargs, h_next, aligned_headings, used_word_indices>>
    /\ UNCHANGED auxVars

NextSub ==
    \/ RaiseNoFallback
    \/ FallbackAnalysis
    \/ BeginAlign
    \/ AlignHeading
    \/ FinishAlign
    \/ BuildEntries
    \/ SortAndReturn

SpecSub == InitSub /\ [][NextSub]_vars

----------------------------------------------------------------------------
(* _format_ass_time called on its own *)

\* 0 s, 1 min, 1 h and 10 h
FormatBases == {0, 60 * OneSecond, 3600 * OneSecond, 36000 * OneSecond}

\* times up to MaxDelta ticks before and after these, negative ones included
FormatInputs == {b + d : b \in FormatBases, d \in (0 - MaxDelta)..MaxDelta}

IdleSub ==
    /\ word_timestamps = <<>>
    /\ heading_strings = <<>>
    /\ line_rules = NoLineRules
    /\ time_offset_s = 0
    /\ kwargs = NoFallback
    /\ h_next = 0
    /\ aligned_headings = <<>>
    /\ used_word_indices = {}
    /\ dialogue_entries = <<>>
    /\ document = NoDocument

InitFormat ==
    /\ pc = "format"
    /\ raised = "none"
    /\ IdlePacing
    /\ IdleSub
    /\ seconds_arg \in FormatInputs
    /\ formatted = <<>>
    /\ call_no = 1
    /\ first_output = <<>>
    /\ IdleImage
    /\ IdlePipeline

\* lines 24-33
FormatTime ==
    /\ pc = "format"
    /\ formatted' = FormatAssTime(seconds_arg)
    /\ pc' = "formatted"
    /\ UNCHANGED <<raised, pacingVars, subVars, seconds_arg, call_no, first_output,
                   imageVars, pipelineVars>>

NextFormat == FormatTime

SpecFormat == InitFormat /\ [][NextFormat]_vars

----------------------------------------------------------------------------
(* Both consumers of a word list: a run is one call of AudioAnalyzer.process
   or one call of SubtitleProcessor.process *)

Init == InitPacing \/ InitSub

Next == NextPacing \/ NextSub

Spec == Init /\ [][Next]_vars

----------------------------------------------------------------------------
(* Two calls on the same AudioAnalyzer or SubtitleProcessor object with the
   same arguments *)

\* the calls considered: a segmenter call with the three thresholds
\* configured, a subtitle call with default line rules and no offset
InitRerun ==
    /\ Init
    /\ pc = "process" => DOMAIN chunk_config = ConfigKeys
    /\ pc = "sub_process" => line_rules = NoLineRules /\ time_offset_s = 0

\* what the call that has just returned gave back
Output == IF words # <<>> THEN final_chunks ELSE document

\* the first call was given words and has returned; the same method is
\* called again on the same object with the same arguments, and what the
\* first call left behind stays
CallAgain ==
    /\ pc = "returned"
    /\ call_no = 1
    /\ words # <<>> \/ (word_timestamps # <<>> /\ kwargs = NoFallback)
    /\ first_output' = Output
    /\ call_no' = 2
    /\ pc' = IF words # <<>> THEN "process" ELSE "sub_process"
    /\ UNCHANGED <<raised, pacingVars, subVars, seconds_arg, formatted,
                   imageVars, pipelineVars>>

NextRerun == Next \/ CallAgain

SpecRerun == InitRerun /\ [][NextRerun]_vars

----------------------------------------------------------------------------
(* ImageGenerator: one object, several process() calls *)

\* the process() calls modelled on one object
MaxCalls == 3

\* what _generate_with_gemini / _generate_with_bytez can do: return image
\* bytes, return nothing, raise
GeneratorOutcomes == {"image", "no_bytes", "exception"}

\* self.gemini_has_failed after the block of lines 97-108 kept only for an
\* exception: a call without image bytes leaves the flag as it was
GeminiFailedAfterExceptionOnly(failed, tried, outcome) ==
    failed \/ (tried /\ outcome = "exception")

\* self.gemini_has_failed after the block of lines 97-108: set once Gemini
\* was tried and did not return image bytes
GeminiFailedAfter(failed, tried, outcome) ==
    failed \/ (tried /\ outcome # "image")

\* ImageGenerator.__init__, lines 59-70: the fallback is initialised or not
InitImage ==
    /\ pc = "image"
    /\ raised = "none"
    /\ IdlePacing
    /\ IdleSub
    /\ seconds_arg = 0
    /\ formatted = <<>>
    /\ call_no = 1
    /\ first_output = <<>>
    /\ IdlePipeline
    /\ gemini_has_failed = FALSE
    /\ bytez_model \in BOOLEAN
    /\ image_calls = <<>>

\* ImageGenerator.process, lines 74-122, as one call
ImageProcess ==
    /\ pc = "image"
    /\ Len(image_calls) < MaxCalls
    /\ \E prompt_empty \in BOOLEAN, gemini \in GeneratorOutcomes, bytez \in GeneratorOutcomes :
          LET try_gemini  == ~prompt_empty /\ ~gemini_has_failed
              gemini_done == try_gemini /\ gemini = "image"
              try_bytez   == ~prompt_empty /\ ~gemini_done /\ bytez_model
              result      == IF gemini_done \/ (try_bytez /\ bytez = "image")
                             THEN "image" ELSE "None"
          IN  /\ gemini_has_failed' = GeminiFailedAfter(gemini_has_failed, try_gemini, gemini)
              /\ image_calls' = Append(image_calls,
                                       [ prompt_empty |-> prompt_empty,
                                         gemini |-> IF try_gemini THEN gemini ELSE "not_called",
                                         bytez  |-> IF try_bytez THEN bytez ELSE "not_called",
                                         result |-> result ])
    /\ UNCHANGED <<pc, raised, pacingVars, subVars, seconds_arg, formatted, call_no,
                   first_output, bytez_model, pipelineVars>>

NextImage == ImageProcess

SpecImage == InitImage /\ [][NextImage]_vars

----------------------------------------------------------------------------
(* Orchestrator.run_pipeline *)

\* pipeline_steps, lines 121-129
PipelineSteps == <<"SCRIPT", "AUDIO", "ANALYSIS", "PROMPTS", "VISUALS", "SUBTITLES", "RENDER">>

\* the file whose existence makes run_pipeline skip the stage
Artifact(stage) ==
    CASE stage = "SCRIPT"    -> "generated_script.txt"
      [] stage = "AUDIO"     -> "master_audio.wav"
      [] stage = "ANALYSIS"  -> "analysis.json"
      [] stage = "PROMPTS"   -> "prompts.json"
      [] stage = "VISUALS"   -> "image_sequence.json"
      [] stage = "SUBTITLES" -> "subtitles.ass"
      [] stage = "RENDER"    -> "final_video.mp4"

Artifacts == {Artifact(PipelineSteps[k]) : k \in 1..Len(PipelineSteps)}

\* SkipSets with the AUDIO branch of lines 148-150 not setting master_audio
SkipSetsAudioForgotten(stage) ==
    CASE stage = "SCRIPT"    -> {"script_content", "script"}
      [] stage = "AUDIO"     -> {}
      [] stage = "ANALYSIS"  -> {"analysis_result"}
      [] stage = "PROMPTS"   -> {"prompts_result", "prompts"}
      [] stage = "VISUALS"   -> {"image_sequence"}
      [] stage = "SUBTITLES" -> {"subtitles"}
      [] stage = "RENDER"    -> {"final_video"}

\* what the branch of a skipped stage sets (lines 138-190): script_content,
\* the locals analysis_result and prompts_result, keys of asset_paths
SkipSets(stage) ==
    CASE stage = "SCRIPT"    -> {"script_content", "script"}
      [] stage = "AUDIO"     -> {"master_audio"}
      [] stage = "ANALYSIS"  -> {"analysis_result"}
      [] stage = "PROMPTS"   -> {"prompts_result", "prompts"}
      [] stage = "VISUALS"   -> {"image_sequence"}
      [] stage = "SUBTITLES" -> {"subtitles"}
      [] stage = "RENDER"    -> {"final_video"}

\* what a stage function that returns has set (lines 226-428, and the
\* assignments of lines 159 and 169)
ExecSets(stage) ==
    CASE stage = "SCRIPT"    -> {"script_content", "script"}
      [] stage = "AUDIO"     -> {"master_audio"}
      [] stage = "ANALYSIS"  -> {"analysis_result", "analysis"}
      [] stage = "PROMPTS"   -> {"prompts_result", "prompts"}
      [] stage = "VISUALS"   -> {"image_sequence"}
      [] stage = "SUBTITLES" -> {"subtitles"}
      [] stage = "RENDER"    -> {"final_video"}

\* what a stage function reads of the values set by run_pipeline and by the
\* other stage functions (lines 169, 179, 187, 242, 255, 278, 366, 383,
\* 409, 419)
Reads(stage) ==
    CASE stage = "SCRIPT"    -> {}
      [] stage = "AUDIO"     -> {"script_content"}
      [] stage = "ANALYSIS"  -> {"master_audio"}
      [] stage = "PROMPTS"   -> {"analysis_result", "script_content"}
      [] stage = "VISUALS"   -> {"prompts_result"}
      [] stage = "SUBTITLES" -> {"analysis_result", "script_content"}
      [] stage = "RENDER"    -> {"master_audio", "image_sequence", "subtitles"}

\* the names that are not keys of asset_paths
NonAssetNames == {"script_content", "analysis_result", "prompts_result"}

\* the value is set: an attribute or a local that is not None, or a key
\* present in asset_paths
IsSet(name) ==
    CASE name = "script_content"  -> script_content
      [] name = "analysis_result" -> analysis_result
      [] name = "prompts_result"  -> prompts_result
      [] OTHER                    -> name \in asset_paths

\* reading the value while unset raises: KeyError for a key of asset_paths,
\* TypeError for the None of analysis_result and prompts_result;
\* script_content is handed on as None
RaisesWhenUnset(name) == name # "script_content"

\* Orchestrator.__init__ done, with any set of artifacts left by earlier runs
InitPipeline ==
    /\ pc = "pipeline"
    /\ raised = "none"
    /\ IdlePacing
    /\ IdleSub
    /\ seconds_arg = 0
    /\ formatted = <<>>
    /\ call_no = 1
    /\ first_output = <<>>
    /\ IdleImage
    /\ current_stage = "INIT"
    /\ step_no = 1
    /\ files \in SUBSET Artifacts
    /\ script_content = FALSE
    /\ asset_paths = {}
    /\ analysis_result = FALSE
    /\ prompts_result = FALSE
    /\ run_result = "running"
    /\ stage_log = <<>>
    /\ unset_reads = {}

\* the values in sets become set
SetValues(sets) ==
    /\ script_content' = (script_content \/ "script_content" \in sets)
    /\ analysis_result' = (analysis_result \/ "analysis_result" \in sets)
    /\ prompts_result' = (prompts_result \/ "prompts_result" \in sets)
    /\ asset_paths' = asset_paths \cup (sets \ NonAssetNames)

\* the except branch of lines 214-219: the run ends with False
StageRaises(stage) ==
    /\ run_result' = "False"
    /\ pc' = "pipeline_done"
    /\ stage_log' = Append(stage_log, <<stage, "raised">>)
    /\ UNCHANGED step_no

\* _save_state of line 199 returned: the loop goes on
StageDone(stage, how) ==
    /\ step_no' = step_no + 1
    /\ stage_log' = Append(stage_log, <<stage, how>>)
    /\ UNCHANGED <<pc, run_result>>

\* one iteration of the for loop of lines 135-199, artifact present: the
\* branch that skips the stage, then _save_state, which returns or raises
SkipStage ==
    /\ pc = "pipeline"
    /\ step_no <= Len(PipelineSteps)
    /\ LET stage == PipelineSteps[step_no]
       IN  /\ Artifact(stage) \in files
           /\ current_stage' = stage
           /\ SetValues(SkipSets(stage))
           /\ \E save_state_ok \in BOOLEAN :
                 IF save_state_ok THEN StageDone(stage, "skipped") ELSE StageRaises(stage)
    /\ UNCHANGED <<raised, pacingVars, subVars, seconds_arg, formatted, call_no,
                   first_output, imageVars, files, unset_reads>>

\* one iteration of the for loop of lines 135-199, artifact absent: the
\* stage function runs and returns or raises, then _save_state
ExecuteStage ==
    /\ pc = "pipeline"
    /\ step_no <= Len(PipelineSteps)
    /\ LET stage  == PipelineSteps[step_no]
           unset  == {n \in Reads(stage) : ~IsSet(n)}
       IN  /\ Artifact(stage) \notin files
           /\ current_stage' = stage
           /\ unset_reads' = unset_reads \cup {<<stage, n>> : n \in unset}
           /\ \E returns \in BOOLEAN, save_state_ok \in BOOLEAN :
                 IF returns /\ ~(\E n \in unset : RaisesWhenUnset(n))
                 THEN /\ SetValues(ExecSets(stage))
                      /\ files' = files \cup {Artifact(stage)}
                      /\ IF save_state_ok THEN StageDone(stage, "executed")
                                          ELSE StageRaises(stage)
                 ELSE /\ StageRaises(stage)
                      /\ UNCHANGED <<files, script_content, asset_paths, analysis_result,
                                     prompts_result>>
    /\ UNCHANGED <<raised, pacingVars, subVars, seconds_arg, formatted, call_no,
                   first_output, imageVars>>

\* lines 201-212: the loop is over
Complete ==
    /\ pc = "pipeline"
    /\ step_no > Len(PipelineSteps)
    /\ current_stage' = "COMPLETE"
    /\ run_result' = "True"
    /\ pc' = "pipeline_done"
    /\ UNCHANGED <<raised, pacingVars, subVars, seconds_arg, formatted, call_no,
                   first_output, imageVars, step_no, files, script_content, asset_paths,
                   analysis_result, prompts_result, stage_log, unset_reads>>

NextPipeline == SkipStage \/ ExecuteStage \/ Complete

SpecPipeline == InitPipeline /\ [][NextPipeline]_vars

----------------------------------------------------------------------------
(* Properties of the pacing segmenter *)

\* every word of the list has its three keys
WellKeyed(ws) == \A i \in 1..Len(ws) : {"text", "start", "end"} \subseteq DOMAIN ws[i]

RECURSIVE Flatten(_)
Flatten(ss) == IF ss = <<>> THEN <<>> ELSE Head(ss) \o Flatten(Tail(ss))

\* the texts of the chunks, in output order
ChunkTexts(cs) == Flatten([i \in 1..Len(cs) |-> cs[i].raw_text])

\* the silence after word k, in milliseconds
GapAfterMs(k) == SecToMs(words[k + 1].start - words[k].end)

\* the chunks of cs that lie inside the word range of chunk m
SubChunkIdx(cs, m) ==
    {i \in 1..Len(cs) : /\ m.word_indices[1] <= cs[i].word_indices[1]
                        /\ cs[i].word_indices[2] <= m.word_indices[2]}

\* C1: the returned chunks, in output order, are non-empty consecutive word
\* ranges that start at the first word and end at the last, without gap or
\* overlap: every word is in exactly one chunk, split tails included.
C1_EveryWordInOneChunk ==
    (pc = "returned" /\ words # <<>>) =>
        /\ Len(final_chunks) = Len(pacing_chunks)
        /\ Len(final_chunks) >= 1
        /\ ChunkTexts(final_chunks) = [i \in 1..Len(words) |-> words[i].text]
        /\ pacing_chunks[1].word_indices[1] = 1
        /\ pacing_chunks[Len(pacing_chunks)].word_indices[2] = Len(words)
        /\ \A i \in 1..Len(pacing_chunks) :
              LET s == pacing_chunks[i].word_indices[1]
                  e == pacing_chunks[i].word_indices[2]
              IN  /\ s <= e
                  /\ final_chunks[i].raw_text = [j \in 1..(e - s + 1) |-> words[s + j - 1].text]
                  /\ i < Len(pacing_chunks) => pacing_chunks[i + 1].word_indices[1] = e + 1

\* a split chunk left a one-word tail, which is returned as the last chunk
C1_Witness ==
    /\ pc = "returned"
    /\ Len(words) = MaxWords
    /\ Len(merged) = 1
    /\ Len(final_chunks) = 2
    /\ Len(final_chunks[2].raw_text) = 1
    /\ final_chunks[2].duration_ms < max_chunk_ms

\* C4: with min_chunk_ms > 0, right after the merge pass every chunk but the
\* last lasts at least min_chunk_ms.
C4_MergedChunksLongEnough ==
    (pc = "split" /\ min_chunk_ms > 0) =>
        \A i \in 1..(Len(pacing_chunks) - 1) : pacing_chunks[i].duration_ms >= min_chunk_ms

\* three words with non-decreasing times, each a chunk of its own before the
\* merge pass; the first two short chunks and the third were merged
C4_Witness ==
    /\ pc = "split"
    /\ min_chunk_ms > 0
    /\ Len(words) = 3
    /\ \A k \in 1..2 : /\ GapAfterMs(k) >= min_silence_ms
                       /\ words[k].start <= words[k + 1].start
    /\ \A k \in 1..3 : words[k].start <= words[k].end
    /\ Len(pacing_chunks) = 1
    /\ pacing_chunks[1].duration_ms >= min_chunk_ms

\* C5: with max_chunk_ms > 0, after the split pass a chunk is longer than
\* max_chunk_ms only by its last word: its duration is <= max_chunk_ms, or the
\* span from its first word's start to its second-to-last word's end is
\* < max_chunk_ms (a one-word chunk has no such span).
C5_OvershootByOneWord ==
    (pc \in {"finalize", "returned"} /\ max_chunk_ms > 0) =>
        \A i \in 1..Len(pacing_chunks) :
            LET s == pacing_chunks[i].word_indices[1]
                e == pacing_chunks[i].word_indices[2]
            IN  \/ pacing_chunks[i].duration_ms <= max_chunk_ms
                \/ s = e
                \/ SecToMs(words[e - 1].end - words[s].start) < max_chunk_ms

\* a sub-chunk of two words that is longer than max_chunk_ms
C5_Witness ==
    /\ pc = "finalize"
    /\ max_chunk_ms > 0
    /\ \E i \in 1..Len(pacing_chunks) :
          /\ pacing_chunks[i].word_indices[2] > pacing_chunks[i].word_indices[1]
          /\ pacing_chunks[i].duration_ms > max_chunk_ms

\* C6 as stated: a chunk longer than max_chunk_ms is split into sub-chunks
\* that each last at most max_chunk_ms.
C6_SubChunksAtMostMax ==
    (pc = "finalize" /\ max_chunk_ms > 0) =>
        \A m \in 1..Len(merged) :
            merged[m].duration_ms > max_chunk_ms =>
                \A i \in SubChunkIdx(pacing_chunks, merged[m]) :
                    pacing_chunks[i].duration_ms <= max_chunk_ms

\* C6 amended: a chunk longer than max_chunk_ms is split into sub-chunks of
\* which every one but the last lasts at least max_chunk_ms (a sub-chunk is
\* closed by the word that reaches the maximum); only the last can be shorter.
C6_SubChunksReachMax ==
    (pc = "finalize" /\ max_chunk_ms > 0) =>
        \A m \in 1..Len(merged) :
            merged[m].duration_ms > max_chunk_ms =>
                \A i \in SubChunkIdx(pacing_chunks, merged[m]) :
                    pacing_chunks[i].word_indices[2] < merged[m].word_indices[2] =>
                        pacing_chunks[i].duration_ms >= max_chunk_ms

\* a chunk of well-timed words split in two: a first sub-chunk longer than
\* max_chunk_ms and a shorter remainder
C6_Witness ==
    /\ pc = "finalize"
    /\ max_chunk_ms > 0
    /\ Len(merged) = 1
    /\ merged[1].duration_ms > max_chunk_ms
    /\ \A k \in 1..Len(words) : words[k].start <= words[k].end
    /\ \A k \in 1..(Len(words) - 1) : words[k].end <= words[k + 1].start
    /\ Len(pacing_chunks) = 2
    /\ pacing_chunks[1].duration_ms > max_chunk_ms
    /\ pacing_chunks[2].duration_ms < max_chunk_ms

\* the threshold is not configured: the key is missing or its value is zero
Unset(key) == ~Has(chunk_config, key) \/ chunk_config[key] = 0

\* C9 as stated: a missing or zero minimum becomes 5000 ms, a missing or zero
\* maximum becomes twice the minimum, and a maximum <= the minimum is forced
\* to twice the minimum.
C9_DefaultsApplied ==
    (pc # "process") =>
        /\ Unset("min_chunk_duration_s") => min_chunk_ms = 5000
        /\ Unset("max_chunk_duration_s") => max_chunk_ms = 2 * min_chunk_ms
        /\ max_chunk_ms > min_chunk_ms

\* C9 amended: a missing or zero minimum gives min_chunk_ms = 0 and the merge
\* pass changes nothing; a missing or zero maximum gives max_chunk_ms = 0 and
\* the split pass changes nothing; a configured threshold is used as given
\* (truncated to whole milliseconds), also when the maximum is <= the minimum.
C9_UnsetThresholdsDisablePasses ==
    (pc # "process") =>
        /\ Unset("min_chunk_duration_s") => min_chunk_ms = 0
        /\ Unset("max_chunk_duration_s") => max_chunk_ms = 0
        /\ \A key \in {"min_chunk_duration_s", "max_chunk_duration_s"} :
              ~Unset(key) =>
                 LET ms == IF key = "min_chunk_duration_s" THEN min_chunk_ms ELSE max_chunk_ms
                 IN  ms * CfgPerMs <= chunk_config[key] /\ chunk_config[key] < (ms + 1) * CfgPerMs
        /\ (pc \in {"split", "finalize", "returned"} /\ Unset("min_chunk_duration_s")
              /\ words # <<>>) =>
              \A i \in 1..Len(merged) :
                 \A k \in merged[i].word_indices[1]..(merged[i].word_indices[2] - 1) :
                    GapAfterMs(k) < min_silence_ms
        /\ (pc \in {"finalize", "returned"} /\ Unset("max_chunk_duration_s")) =>
              pacing_chunks = merged

\* the configured maximum is below the configured minimum, and the split
\* pass cut the one merged chunk
C9_Witness ==
    /\ pc = "returned"
    /\ ~Unset("min_chunk_duration_s")
    /\ ~Unset("max_chunk_duration_s")
    /\ 0 < max_chunk_ms
    /\ max_chunk_ms < min_chunk_ms
    /\ Len(words) = MaxWords
    /\ Len(merged) = 1
    /\ Len(final_chunks) > 1

----------------------------------------------------------------------------
(* Properties of the subtitle builder *)

\* the cues of the entry list es that contain word i
CuesOf(es, i) == {k \in 1..Len(es) : i \in es[k].indices}

\* the entries of the given style
StyledCues(es, style) == {k \in 1..Len(es) : es[k].style = style}

\* C2: in the returned document every word index is in exactly one cue: in
\* the index set of one accepted heading (then in no regular cue) or among the
\* words of one regular cue (then in no heading); none is dropped.
C2_EveryWordInOneCue ==
    (pc = "returned" /\ word_timestamps # <<>>) =>
        LET es == document.dialogue
        IN  /\ \A i \in 1..Len(word_timestamps) : Cardinality(CuesOf(es, i)) = 1
            /\ \A k \in 1..Len(es) : es[k].indices \subseteq 1..Len(word_timestamps)
            /\ Cardinality(StyledCues(es, "HeadingStyle")) = Len(aligned_headings)
            /\ \A k \in StyledCues(es, "HeadingStyle") :
                  \E h \in 1..Len(aligned_headings) :
                      es[k].indices = aligned_headings[h].indices
            /\ \A k \in StyledCues(es, "Default") :
                  /\ es[k].indices \cap used_word_indices = {}
                  /\ Len(es[k].text) = Cardinality(es[k].indices)

\* a heading on the middle one of three words: the pending line is flushed
\* before it and a new line starts after it
C2_Witness ==
    /\ pc = "returned"
    /\ Len(word_timestamps) = 3
    /\ used_word_indices = {2}
    /\ Len(document.dialogue) = 3
    /\ Cardinality(StyledCues(document.dialogue, "Default")) = 2

\* C3: while and after the headings are aligned, the index sets of the
\* accepted headings are non-empty, pairwise disjoint sets of word positions
\* and used_word_indices is their union.
C3_AcceptedHeadingsDisjoint ==
    /\ \A a, b \in 1..Len(aligned_headings) :
          a # b => aligned_headings[a].indices \cap aligned_headings[b].indices = {}
    /\ used_word_indices =
          UNION {aligned_headings[a].indices : a \in 1..Len(aligned_headings)}
    /\ \A a \in 1..Len(aligned_headings) :
          /\ aligned_headings[a].indices # {}
          /\ aligned_headings[a].indices \subseteq 1..Len(word_timestamps)

\* a second heading has just been accepted, on words the first one left free
C3_Witness ==
    /\ pc = "align"
    /\ h_next = 3
    /\ Len(aligned_headings) = 2
    /\ Cardinality(used_word_indices) = 3

\* the value of the digits ds
RECURSIVE DigitsValue(_)
DigitsValue(ds) ==
    IF ds = <<>> THEN 0
    ELSE 10 * DigitsValue(SubSeq(ds, 1, Len(ds) - 1)) + (ds[Len(ds)] - 48)

\* the time H:MM:SS.cc in centiseconds
AssTimeCs(t) ==
    LET n == Len(t)
    IN  DigitsValue(SubSeq(t, 1, n - 9)) * 360000
          + DigitsValue(SubSeq(t, n - 7, n - 6)) * 6000
          + DigitsValue(SubSeq(t, n - 4, n - 3)) * 100
          + DigitsValue(SubSeq(t, n - 1, n))

\* C7: the Dialogue entries of the returned document are in non-decreasing
\* order of start time, whatever the number of hours.
C7_DialogueSortedByStart ==
    pc = "returned" =>
        \A k \in 1..(Len(document.dialogue) - 1) :
            AssTimeCs(document.dialogue[k].start_time)
                <= AssTimeCs(document.dialogue[k + 1].start_time)

\* C8 as stated: with no words and no fallback parameter, process returns the
\* header alone and raises nothing.
C8_EmptyWordsHeaderOnly ==
    (pc # "sub_process" /\ word_timestamps = <<>>
        /\ ~kwargs.audio_bytes /\ ~kwargs.analyzer_config) =>
        /\ pc = "returned"
        /\ raised = "none"
        /\ document = Document(<<>>)

\* C8 amended: with no words, process raises ValueError and returns nothing
\* unless both audio_bytes and analyzer_config are given; with both, it ends
\* with the header alone (the analysis found no word) or with RuntimeError.
C8_EmptyWordsNeedFallback ==
    (pc # "sub_process" /\ word_timestamps = <<>>) =>
        IF ~kwargs.audio_bytes \/ ~kwargs.analyzer_config
        THEN pc = "failed" /\ raised = "ValueError" /\ document = NoDocument
        ELSE \/ pc = "failed" /\ raised = "RuntimeError" /\ document = NoDocument
             \/ pc = "returned" /\ raised = "none" /\ document = Document(<<>>)

\* no words, one fallback parameter given and the other missing: ValueError
C8_Witness ==
    /\ pc = "failed"
    /\ raised = "ValueError"
    /\ word_timestamps = <<>>
    /\ kwargs.audio_bytes
    /\ ~kwargs.analyzer_config

\* the tokens of a heading, as _align_headings compares them
HeadingTokens(h) == StrSplit(NormalizeTextForMatching(h))

\* the matching blocks of heading h that touch no word in used
FreeBlocks(h, wts, used) ==
    IF HeadingTokens(h) = <<>> THEN {}
    ELSE LET bs == GetMatchingBlocks(HeadingTokens(h), SttNormalizedWords(wts))
         IN  {m \in {bs[k] : k \in 1..Len(bs)} : m[3] > 0 /\ BlockIndices(m) \cap used = {}}

\* the free blocks of h that cover more than 70% of its tokens
GoodBlocks(h, wts, used) ==
    {m \in FreeBlocks(h, wts, used) : 10 * m[3] > 7 * Len(HeadingTokens(h))}

\* the step of _align_headings that handles one heading
HeadingStep == pc = "align" /\ h_next <= Len(heading_strings) /\ h_next' = h_next + 1

\* C11: a heading is accepted exactly when one of its matching blocks that
\* touches no claimed word covers strictly more than 70% of its tokens; the
\* accepted heading takes such a block, so a block of exactly 70% is rejected.
C11_StrictRatioThreshold ==
    [][ HeadingStep =>
          LET h    == heading_strings[h_next]
              good == GoodBlocks(h, word_timestamps, used_word_indices)
          IN  IF good = {}
              THEN aligned_headings' = aligned_headings
                     /\ used_word_indices' = used_word_indices
              ELSE /\ Len(aligned_headings') = Len(aligned_headings) + 1
                   /\ SubSeq(aligned_headings', 1, Len(aligned_headings)) = aligned_headings
                   /\ LET new == aligned_headings'[Len(aligned_headings')]
                      IN  /\ \E m \in good : new.indices = BlockIndices(m)
                          /\ 10 * Cardinality(new.indices) > 7 * Len(HeadingTokens(h))
      ]_vars

\* the ten-token heading met seven equal words: its only block covers exactly
\* 70% of it, and the heading was rejected
C11_Witness ==
    /\ pc = "align"
    /\ h_next = 2
    /\ heading_strings = <<LongHeading>>
    /\ Len(word_timestamps) = 7
    /\ aligned_headings = <<>>

\* the smallest and the largest element of a non-empty set of integers
SetMin(S) == CHOOSE x \in S : \A y \in S : x <= y

SetMax(S) == CHOOSE x \in S : \A y \in S : x >= y

\* the words lo..hi, normalized, are a run of consecutive tokens of heading h
IsMatchedRun(h, wts, lo, hi) ==
    LET toks == HeadingTokens(h)
    IN  \E j \in 1..Len(toks) :
            /\ j + (hi - lo) <= Len(toks)
            /\ \A d \in 0..(hi - lo) : SttNormalizedWords(wts)[lo + d] = toks[j + d]

\* C12: an accepted heading keeps the original heading string as its text, its
\* indices are the positions lo..hi of a run of words that matches the heading,
\* it starts at the start of word lo and ends at the end of word hi, and its
\* cue carries these two times.
C12_HeadingSpansItsBlock ==
    \A a \in 1..Len(aligned_headings) :
        LET m  == aligned_headings[a]
            lo == SetMin(m.indices)
            hi == SetMax(m.indices)
        IN  /\ \E k \in 1..Len(heading_strings) : m.text = heading_strings[k]
            /\ m.indices = lo..hi
            /\ IsMatchedRun(m.text, word_timestamps, lo, hi)
            /\ m.start_s = word_timestamps[lo].start
            /\ m.end_s = word_timestamps[hi].end
            /\ pc \in {"sort", "returned"} =>
                  \E k \in StyledCues(dialogue_entries, "HeadingStyle") :
                      /\ dialogue_entries[k].indices = lo..hi
                      /\ dialogue_entries[k].start_time =
                            FormatAssTime(word_timestamps[lo].start + time_offset_s)
                      /\ dialogue_entries[k].end_time =
                            FormatAssTime(word_timestamps[hi].end + time_offset_s)

\* the heading "A b" over the words " A", "b." and a third one: it took the
\* first two words, from the start of the first to the end of the second
C12_Witness ==
    /\ pc = "returned"
    /\ Len(word_timestamps) = 3
    /\ Len(aligned_headings) = 1
    /\ aligned_headings[1].text = <<"A", " ", "b">>
    /\ aligned_headings[1].indices = {1, 2}
    /\ aligned_headings[1].start_s = word_timestamps[1].start
    /\ aligned_headings[1].end_s = word_timestamps[2].end
    /\ aligned_headings[1].end_s > word_timestamps[1].end

\* heading h has no matching block above the threshold in the words wts (an
\* empty normalized text has no block at all)
Unmatched(h, wts) == GoodBlocks(h, wts, {}) = {}

\* C13: the step on a heading without a block above the threshold accepts
\* nothing, claims no word and raises nothing, and the loop goes on with the
\* next heading; in the returned document such a heading has no cue and every
\* unclaimed word is in a regular cue.
C13_UnmatchedHeadingDropped ==
    /\ [][ (HeadingStep /\ Unmatched(heading_strings[h_next], word_timestamps)) =>
             /\ aligned_headings' = aligned_headings
             /\ used_word_indices' = used_word_indices
             /\ raised' = "none"
             /\ pc' = "align"
         ]_vars
    /\ [] ( (pc = "returned" /\ word_timestamps # <<>>) =>
              /\ \A k \in 1..Len(heading_strings) :
                    Unmatched(heading_strings[k], word_timestamps) =>
                       \A c \in StyledCues(document.dialogue, "HeadingStyle") :
                          document.dialogue[c].text # <<ReplaceNewlines(heading_strings[k])>>
              /\ \A i \in (1..Len(word_timestamps)) \ used_word_indices :
                    \E c \in StyledCues(document.dialogue, "Default") :
                       i \in document.dialogue[c].indices )

\* the heading "a b a" found only two of its three tokens and was dropped;
\* the next heading, "b.", was then accepted
C13_Witness ==
    /\ pc = "align"
    /\ h_next = 3
    /\ heading_strings[1] = <<"a", " ", "b", " ", "a">>
    /\ FreeBlocks(heading_strings[1], word_timestamps, {}) # {}
    /\ Unmatched(heading_strings[1], word_timestamps)
    /\ Len(aligned_headings) = 1
    /\ aligned_headings[1].text = heading_strings[2]

\* the input contract on times: starts do not decrease and no word ends
\* before it starts
WellTimed(ws) ==
    \A i \in 1..Len(ws) :
        /\ ws[i].end >= ws[i].start
        /\ i > 1 => ws[i].start >= ws[i - 1].start

\* C14: for well-timed words every cue ends no earlier than it starts, in
\* the word times it is built from and in the formatted times of its line.
C14_CueEndsAfterStart ==
    (pc \in {"sort", "returned"} /\ WellTimed(word_timestamps)) =>
        /\ \A a \in 1..Len(aligned_headings) :
              aligned_headings[a].end_s >= aligned_headings[a].start_s
        /\ \A k \in 1..Len(dialogue_entries) :
              LET c == dialogue_entries[k]
              IN  /\ word_timestamps[SetMax(c.indices)].end
                        >= word_timestamps[SetMin(c.indices)].start
                  /\ AssTimeCs(c.end_time) >= AssTimeCs(c.start_time)

\* well-timed words with a silence between them, shifted by an offset: a
\* heading cue on two words and a regular cue, each ending after its start
C14_Witness ==
    /\ pc = "returned"
    /\ WellTimed(word_timestamps)
    /\ time_offset_s > 0
    /\ Len(word_timestamps) = 3
    /\ \E k \in 1..2 : word_timestamps[k + 1].start > word_timestamps[k].end
    /\ \E k \in StyledCues(dialogue_entries, "HeadingStyle") :
          /\ Cardinality(dialogue_entries[k].indices) = 2
          /\ AssTimeCs(dialogue_entries[k].end_time) > AssTimeCs(dialogue_entries[k].start_time)
    /\ \E k \in StyledCues(dialogue_entries, "Default") :
          AssTimeCs(dialogue_entries[k].end_time) > AssTimeCs(dialogue_entries[k].start_time)

\* the characters of t are decimal digits
AllDigits(t) == \A k \in 1..Len(t) : t[k] \in 48..57

\* C15: the string returned for t >= 0 is H:MM:SS.cc with H one or more
\* digits without leading zero, MM and SS two digits in 00..59 and cc two
\* digits, and its value in centiseconds is floor(ms / 10) for ms a
\* millisecond nearest to t; a negative argument gives 0:00:00.00.
C15_FormatAssTime ==
    pc = "formatted" =>
        LET t  == IF seconds_arg < 0 THEN 0 ELSE seconds_arg
            n  == Len(formatted)
            hh == SubSeq(formatted, 1, n - 9)
            mm == SubSeq(formatted, n - 7, n - 6)
            ss == SubSeq(formatted, n - 4, n - 3)
            cc == SubSeq(formatted, n - 1, n)
        IN  /\ n >= 10
            /\ formatted[n - 8] = 58 /\ formatted[n - 5] = 58 /\ formatted[n - 2] = 46
            /\ AllDigits(hh) /\ AllDigits(mm) /\ AllDigits(ss) /\ AllDigits(cc)
            /\ Len(hh) > 1 => hh[1] # 48
            /\ DigitsValue(mm) <= 59
            /\ DigitsValue(ss) <= 59
            /\ \E ms \in {t \div TicksPerMs, t \div TicksPerMs + 1} :
                  /\ 2 * (ms * TicksPerMs - t) <= TicksPerMs
                  /\ 2 * (t - ms * TicksPerMs) <= TicksPerMs
                  /\ DigitsValue(hh) * 360000 + DigitsValue(mm) * 6000
                        + DigitsValue(ss) * 100 + DigitsValue(cc) = ms \div 10
            /\ seconds_arg < 0 => formatted = <<48, 58, 48, 48, 58, 48, 48, 46, 48, 48>>

\* 9:59:59.9996 is rounded to the next millisecond and printed as 10:00:00.00
C15_Witness ==
    /\ pc = "formatted"
    /\ seconds_arg = 36000 * OneSecond - 4
    /\ formatted = <<49, 48, 58, 48, 48, 58, 48, 48, 46, 48, 48>>

\* the words and the text of the cues of es, without their times
CueGroups(es) ==
    {[style |-> es[k].style, indices |-> es[k].indices, text |-> es[k].text] :
        k \in 1..Len(es)}

\* C16: with an offset >= 0 every cue, heading or regular, starts at the
\* formatted sum of its first word's start and the offset and ends at the
\* formatted sum of its last word's end and the offset, and the cues hold the
\* same words and texts as the cues built with offset 0.
C16_OffsetShiftsEveryCue ==
    (pc \in {"sort", "returned"} /\ time_offset_s >= 0) =>
        /\ \A k \in 1..Len(dialogue_entries) :
              LET c == dialogue_entries[k]
              IN  /\ c.start_time =
                        FormatAssTime(word_timestamps[SetMin(c.indices)].start + time_offset_s)
                  /\ c.end_time =
                        FormatAssTime(word_timestamps[SetMax(c.indices)].end + time_offset_s)
        /\ CueGroups(dialogue_entries) =
              CueGroups(BuildDialogueEntries(word_timestamps, aligned_headings,
                                             used_word_indices, line_rules, 0))

\* a heading cue and a regular cue, both shifted by the offset
C16_Witness ==
    /\ pc = "returned"
    /\ time_offset_s > 0
    /\ StyledCues(dialogue_entries, "HeadingStyle") # {}
    /\ StyledCues(dialogue_entries, "Default") # {}
    /\ \A k \in 1..Len(dialogue_entries) :
          dialogue_entries[k].start_time
             # FormatAssTime(word_timestamps[SetMin(dialogue_entries[k].indices)].start)

----------------------------------------------------------------------------
(* Properties of both consumers of a word list *)

\* the line rules in force
MaxWordsPerLine == DictGet(line_rules, "max_words_per_line", DefaultMaxWords)

MaxLineDuration == DictGet(line_rules, "max_line_duration_s", DefaultMaxDuration)

GapThreshold == DictGet(line_rules, "gap_threshold_s", DefaultGapThreshold)

\* no silence between consecutive words exceeds the gap threshold
NoLongGap ==
    \A i \in 2..Len(word_timestamps) :
        word_timestamps[i].start - word_timestamps[i - 1].end <= GapThreshold

\* no run of at most max_words_per_line words exceeds the maximal duration
NoLongLine ==
    \A i, j \in 1..Len(word_timestamps) :
        (i <= j /\ j - i < MaxWordsPerLine) =>
            word_timestamps[j].end - word_timestamps[i].start <= MaxLineDuration

\* C18: without headings, long gaps and long lines, the n words are emitted
\* as ceil(n / max_words_per_line) regular cues, cue k holding the words
\* (k-1)*max_words_per_line + 1 .. min(k*max_words_per_line, n).
C18_LinesOfMaxWords ==
    (pc = "sort" /\ heading_strings = <<>> /\ NoLongGap /\ NoLongLine) =>
        LET n  == Len(word_timestamps)
            mw == MaxWordsPerLine
        IN  /\ Len(dialogue_entries) = (n + mw - 1) \div mw
            /\ \A k \in 1..Len(dialogue_entries) :
                  /\ dialogue_entries[k].style = "Default"
                  /\ dialogue_entries[k].indices =
                        ((k - 1) * mw + 1)..(IF k * mw < n THEN k * mw ELSE n)
                  /\ Len(dialogue_entries[k].text) = Cardinality(dialogue_entries[k].indices)

\* eight words under the default rules: a line of seven and a line of one
C18_Witness ==
    /\ pc = "sort"
    /\ heading_strings = <<>>
    /\ line_rules = NoLineRules
    /\ Len(word_timestamps) = 8
    /\ NoLongGap /\ NoLongLine
    /\ Len(dialogue_entries) = 2
    /\ Len(dialogue_entries[1].text) = 7
    /\ Len(dialogue_entries[2].text) = 1

\* C17: a second call on the same object with the same words and the same
\* configuration returns what the first call returned, and does not fail.
C17_SecondCallSameOutput ==
    call_no = 2 =>
        /\ raised = "none"
        /\ pc # "failed"
        /\ pc = "returned" => Output = first_output

\* the second subtitle call returned the same heading cue and regular cue
C17_Witness ==
    /\ call_no = 2
    /\ pc = "returned"
    /\ word_timestamps # <<>>
    /\ first_output = document
    /\ StyledCues(document.dialogue, "HeadingStyle") # {}
    /\ StyledCues(document.dialogue, "Default") # {}


\* a start lower than the previous word's start, or an end lower than the
\* word's own start
ViolatesTiming(ws) ==
    \E i \in 1..Len(ws) :
        \/ ws[i].end < ws[i].start
        \/ i > 1 /\ ws[i].start < ws[i - 1].start

\* the word list given to the segmenter breaks the input contract
BadPacingInput == words # <<>> /\ (~WellKeyed(words) \/ ViolatesTiming(words))

\* the word list given to the subtitle builder breaks the input contract
BadSubtitleInput == word_timestamps # <<>> /\ ViolatesTiming(word_timestamps)

RECURSIVE JoinedText(_, _, _)
JoinedText(cs, a, b) ==
    IF a > b THEN <<>> ELSE cs[a].raw_text \o JoinedText(cs, a + 1, b)

\* chunk p of the merged list is made of the initial chunks a..b of cs
MadeOf(p, cs, a, b) ==
    /\ a <= b
    /\ p.word_indices = <<cs[a].word_indices[1], cs[b].word_indices[2]>>
    /\ p.start_ms = cs[a].start_ms
    /\ p.end_ms = cs[b].end_ms
    /\ p.duration_ms = cs[b].end_ms - cs[a].start_ms
    /\ p.raw_text = JoinedText(cs, a, b)

\* a long chunk, or the final chunk, stays as it is; a short chunk takes the
\* chunks after it while the span from its start is below min_chunk_ms
ForwardRun(cs, minms, a, b) ==
    IF cs[a].duration_ms >= minms \/ a = Len(cs)
    THEN b = a
    ELSE /\ b > a
         /\ \A c \in (a + 1)..(b - 1) : cs[c].end_ms - cs[a].start_ms < minms
         /\ cs[b].end_ms - cs[a].start_ms >= minms \/ b = Len(cs)

\* C19: in the merge pass with min_chunk_ms > 0 the merged list is made of
\* consecutive runs of the initial chunks, in order and without a rest; a run
\* that starts with a chunk of at least min_chunk_ms, or with the final chunk,
\* is that chunk alone and unchanged; a run that starts with a shorter chunk
\* takes the following chunks one at a time until the span from its first
\* start to its last end reaches min_chunk_ms or no chunk remains.
C19_ShortChunkMergesForward ==
    [][ (pc = "merge" /\ pc' = "split" /\ min_chunk_ms > 0 /\ pacing_chunks # <<>>) =>
          LET pre  == pacing_chunks
              post == pacing_chunks'
          IN  /\ post # <<>>
              /\ post[1].word_indices[1] = pre[1].word_indices[1]
              /\ post[Len(post)].word_indices[2] = pre[Len(pre)].word_indices[2]
              /\ \A k \in 1..(Len(post) - 1) :
                     post[k + 1].word_indices[1] = post[k].word_indices[2] + 1
              /\ \A k \in 1..Len(post) :
                     \E a \in 1..Len(pre) : \E b \in a..Len(pre) :
                         /\ MadeOf(post[k], pre, a, b)
                         /\ ForwardRun(pre, min_chunk_ms, a, b)
                         /\ b = a => post[k] = pre[a] ]_vars

\* three initial chunks, long, short, long: the merge pass has left two, the
\* first unchanged and the second made of the short chunk and the third
C19_Witness ==
    /\ pc = "split"
    /\ min_chunk_ms > 0
    /\ Len(words) = 3
    /\ \A k \in 1..3 : words[k].start <= words[k].end
    /\ \A k \in 1..2 : /\ GapAfterMs(k) >= min_silence_ms
                       /\ words[k].end <= words[k + 1].start
    /\ SecToMs(words[1].end - words[1].start) >= min_chunk_ms
    /\ SecToMs(words[2].end - words[2].start) < min_chunk_ms
    /\ SecToMs(words[3].end - words[3].start) >= min_chunk_ms
    /\ Len(pacing_chunks) = 2
    /\ pacing_chunks[1] = MkChunk(words, 1, 1)
    /\ pacing_chunks[2].word_indices = <<2, 3>>

\* the indices i at which the silence after word i is at least min_silence_ms
GapCuts == {i \in 1..(Len(words) - 1) : GapAfterMs(i) >= min_silence_ms}

\* the indices i at which a chunk of cs ends and another one begins
BoundariesOf(cs) == {cs[k].word_indices[2] : k \in 1..(Len(cs) - 1)}

\* C20: after the initial split, before the merge pass, a chunk ends at word i
\* and the next begins at word i+1 if and only if the start of word i+1 minus
\* the end of word i, in milliseconds, is >= min_silence_ms; the chunks are
\* consecutive ranges of all the words, 1 + (number of such gaps) of them.
C20_CutAtEverySilence ==
    pc = "merge" =>
        /\ BoundariesOf(pacing_chunks) = GapCuts
        /\ Len(pacing_chunks) = 1 + Cardinality(GapCuts)
        /\ pacing_chunks[1].word_indices[1] = 1
        /\ pacing_chunks[Len(pacing_chunks)].word_indices[2] = Len(words)
        /\ \A k \in 1..(Len(pacing_chunks) - 1) :
               pacing_chunks[k + 1].word_indices[1] = pacing_chunks[k].word_indices[2] + 1

\* three well-timed words, a silence equal to min_silence_ms after the first
\* and a shorter one after the second: two chunks, cut after the first word
C20_Witness ==
    /\ pc = "merge"
    /\ Len(words) = 3
    /\ \A k \in 1..3 : words[k].start <= words[k].end
    /\ \A k \in 1..2 : words[k].end <= words[k + 1].start
    /\ GapAfterMs(1) = min_silence_ms
    /\ GapAfterMs(2) < min_silence_ms
    /\ Len(pacing_chunks) = 2
    /\ pacing_chunks[1].word_indices = <<1, 1>>
    /\ pacing_chunks[2].word_indices = <<2, 3>>

\* the regular cues of the entries built
RegularCues == StyledCues(dialogue_entries, "Default")

\* C21: with max_words_per_line >= 1 every regular cue holds at least one and
\* at most max_words_per_line words.
C21_CueWordCount ==
    (pc \in {"sort", "returned"} /\ MaxWordsPerLine >= 1) =>
        \A k \in RegularCues :
            /\ Cardinality(dialogue_entries[k].indices) >= 1
            /\ Cardinality(dialogue_entries[k].indices) <= MaxWordsPerLine
            /\ Len(dialogue_entries[k].text) = Cardinality(dialogue_entries[k].indices)

\* three words without a long gap or a long line and two words allowed per
\* line: a cue of two words and a cue of one
C21_Witness ==
    /\ pc = "sort"
    /\ MaxWordsPerLine = 2
    /\ Len(word_timestamps) = 3
    /\ used_word_indices = {}
    /\ NoLongGap
    /\ WellTimed(word_timestamps)
    /\ Len(dialogue_entries) = 2
    /\ dialogue_entries[1].indices = {1, 2}
    /\ dialogue_entries[2].indices = {3}

\* the span of a cue: from its first word's start to its last word's end
CueSpan(c) == word_timestamps[SetMax(c.indices)].end - word_timestamps[SetMin(c.indices)].start

\* C22: every regular cue of two or more words spans at most
\* max_line_duration_s from its first word's start to its last word's end; a
\* regular cue that spans more consists of a single word.
C22_CueSpanAtMostMax ==
    pc \in {"sort", "returned"} =>
        \A k \in RegularCues :
            /\ Cardinality(dialogue_entries[k].indices) >= 2 =>
                   CueSpan(dialogue_entries[k]) <= MaxLineDuration
            /\ CueSpan(dialogue_entries[k]) > MaxLineDuration =>
                   Cardinality(dialogue_entries[k].indices) = 1

\* well-timed words following each other closely: the first two span exactly
\* the maximal duration and share a cue, the third would exceed it and
\* starts the next cue
C22_Witness ==
    /\ pc = "sort"
    /\ Len(word_timestamps) = 3
    /\ used_word_indices = {}
    /\ WellTimed(word_timestamps)
    /\ NoLongGap
    /\ MaxWordsPerLine > 3
    /\ word_timestamps[2].end - word_timestamps[1].start = MaxLineDuration
    /\ word_timestamps[3].end - word_timestamps[1].start > MaxLineDuration
    /\ Len(dialogue_entries) = 2
    /\ dialogue_entries[1].indices = {1, 2}
    /\ dialogue_entries[2].indices = {3}

\* the silence before word i
GapBefore(i) == word_timestamps[i].start - word_timestamps[i - 1].end

\* the regular cue that holds word i
CueOfWord(i) == CHOOSE k \in RegularCues : i \in dialogue_entries[k].indices

\* C23: inside a regular cue the gap between a word's start and the end of
\* the word before it is <= gap_threshold_s; a word after a gap greater than
\* the threshold is the first word of its cue; a word after a gap equal to the
\* threshold stays in the cue of the word before it, unless that cue is full
\* or would become longer than max_line_duration_s.
C23_GapAboveThresholdBreaks ==
    pc \in {"sort", "returned"} =>
        /\ \A k \in RegularCues : \A i \in dialogue_entries[k].indices :
               (i - 1) \in dialogue_entries[k].indices => GapBefore(i) <= GapThreshold
        /\ \A i \in 2..Len(word_timestamps) :
               (i \notin used_word_indices /\ GapBefore(i) > GapThreshold) =>
                   i = SetMin(dialogue_entries[CueOfWord(i)].indices)
        /\ \A i \in 2..Len(word_timestamps) :
               ( /\ i \notin used_word_indices
                 /\ (i - 1) \notin used_word_indices
                 /\ GapBefore(i) = GapThreshold ) =>
                   LET c == dialogue_entries[CueOfWord(i - 1)]
                   IN  \/ i \in c.indices
                       \/ Cardinality(c.indices) >= MaxWordsPerLine
                       \/ word_timestamps[i].end - word_timestamps[SetMin(c.indices)].start
                              > MaxLineDuration

\* well-timed words: a gap equal to the threshold before the second, which
\* stays in the first cue, and a greater gap before the third, which starts
\* the second cue
C23_Witness ==
    /\ pc = "sort"
    /\ Len(word_timestamps) = 3
    /\ used_word_indices = {}
    /\ WellTimed(word_timestamps)
    /\ GapBefore(2) = GapThreshold
    /\ GapBefore(3) > GapThreshold
    /\ Len(dialogue_entries) = 2
    /\ dialogue_entries[1].indices = {1, 2}
    /\ dialogue_entries[2].indices = {3}

\* C24: every regular cue covers a range of consecutive word indices, none of
\* them taken by a heading.
C24_CueContiguousNoHeadingWord ==
    pc \in {"sort", "returned"} =>
        \A k \in RegularCues :
            LET ix == dialogue_entries[k].indices
            IN  /\ ix # {}
                /\ ix = SetMin(ix)..SetMax(ix)
                /\ ix \cap used_word_indices = {}

\* a heading on the second of three closely spoken words: without it the
\* three words would share a line; the first and the third are a cue each
C24_Witness ==
    /\ pc = "sort"
    /\ Len(word_timestamps) = 3
    /\ used_word_indices = {2}
    /\ NoLongGap /\ NoLongLine
    /\ MaxWordsPerLine >= 3
    /\ Cardinality(RegularCues) = 2
    /\ \E k \in RegularCues : dialogue_entries[k].indices = {1}
    /\ \E k \in RegularCues : dialogue_entries[k].indices = {3}

\* the indices of the words at which a chunk of cs ends
EndsOf(cs) == {cs[k].word_indices[2] : k \in 1..Len(cs)}

\* the span from the start of word s to the end of word e, in milliseconds
SpanMs(s, e) == SecToMs(words[e].end - words[s].start)

\* C25: the split pass starts from the list the merge pass produced; once it
\* has run, every chunk of the merge pass of at most max_chunk_ms (or any
\* chunk when max_chunk_ms is 0) is still in the list as it was, every longer
\* one is replaced by sub-chunks of its own word range, each closed at the
\* first word at which its span reaches max_chunk_ms or at the chunk's last
\* word, and no sub-chunk is merged with anything afterwards: the chunk ends
\* of the merge pass remain chunk ends and the returned list has the
\* sub-chunks' durations, whatever min_chunk_ms is.
C25_SplitAfterMergeNoRemerge ==
    /\ pc = "split" => pacing_chunks = merged
    /\ (pc \in {"finalize", "returned"} /\ words # <<>>) =>
          /\ EndsOf(merged) \subseteq EndsOf(pacing_chunks)
          /\ \A m \in 1..Len(merged) :
                IF max_chunk_ms = 0 \/ merged[m].duration_ms <= max_chunk_ms
                THEN \E i \in 1..Len(pacing_chunks) : pacing_chunks[i] = merged[m]
                ELSE /\ SubChunkIdx(pacing_chunks, merged[m]) # {}
                     /\ \A i \in SubChunkIdx(pacing_chunks, merged[m]) :
                           LET s == pacing_chunks[i].word_indices[1]
                               e == pacing_chunks[i].word_indices[2]
                           IN  /\ pacing_chunks[i] = MkChunk(words, s, e)
                               /\ \A c \in s..(e - 1) : SpanMs(s, c) < max_chunk_ms
                               /\ e < merged[m].word_indices[2] =>
                                      SpanMs(s, e) >= max_chunk_ms
          /\ pc = "returned" =>
                /\ Len(final_chunks) = Len(pacing_chunks)
                /\ \A i \in 1..Len(pacing_chunks) :
                       final_chunks[i].duration_ms = pacing_chunks[i].duration_ms

\* well-timed words: two initial chunks were merged into one chunk longer
\* than max_chunk_ms, which was split; its first sub-chunk is shorter than
\* min_chunk_ms, is not the final chunk and is returned as it is
C25_Witness ==
    /\ pc = "returned"
    /\ min_chunk_ms > 0
    /\ max_chunk_ms > 0
    /\ \A k \in 1..Len(words) : words[k].start <= words[k].end
    /\ \A k \in 1..(Len(words) - 1) : words[k].end <= words[k + 1].start
    /\ Cardinality(GapCuts) >= 1
    /\ Len(merged) = 1
    /\ merged[1].duration_ms > max_chunk_ms
    /\ Len(final_chunks) >= 2
    /\ final_chunks[1].duration_ms < min_chunk_ms

\* the sequence s in the opposite order
Reverse(s) == [k \in 1..Len(s) |-> s[Len(s) + 1 - k]]

\* the heading tokens a block covers
TokensOfBlock(m) == (m[1] + 1)..(m[1] + m[3])

\* C27: the matching blocks of a heading cover disjoint heading tokens, at
\* most one of them covers more than 70% of the tokens, and the heading step
\* accepts what a scan of the blocks in the opposite order accepts.
C27_OneBlockAboveThreshold ==
    [][ (HeadingStep /\ HeadingTokens(heading_strings[h_next]) # <<>>) =>
          LET h    == heading_strings[h_next]
              toks == HeadingTokens(h)
              bs   == GetMatchingBlocks(toks, SttNormalizedWords(word_timestamps))
              rev  == ScanBlocks(Reverse(bs), h, Len(toks), word_timestamps,
                                 used_word_indices, <<>>, InitialHighestRatio)
          IN  /\ \A x, y \in 1..Len(bs) :
                    x # y => TokensOfBlock(bs[x]) \cap TokensOfBlock(bs[y]) = {}
              /\ Cardinality(GoodBlocks(h, word_timestamps, {})) <= 1
              /\ aligned_headings' =
                    IF rev = <<>> THEN aligned_headings ELSE Append(aligned_headings, rev[1])
      ]_vars

\* the ten-token heading on eight equal words, "-" and "b": a block of eight
\* tokens and a block of one token; the heading was accepted on the first
C27_Witness ==
    /\ pc = "align"
    /\ h_next = 2
    /\ heading_strings = <<LongHeading>>
    /\ word_timestamps = InterruptedWords
    /\ Len(GetMatchingBlocks(HeadingTokens(LongHeading),
                             SttNormalizedWords(word_timestamps))) = 3
    /\ Len(aligned_headings) = 1
    /\ aligned_headings[1].indices = 1..8

\* every word ends no earlier than it starts and starts no earlier than the
\* word before it ends
NoWordOverlap(ws) ==
    \A i \in 1..Len(ws) :
        /\ ws[i].end >= ws[i].start
        /\ i > 1 => ws[i].start >= ws[i - 1].end

RECURSIVE SumDurations(_)
SumDurations(cs) ==
    IF cs = <<>> THEN 0 ELSE Head(cs).duration_ms + SumDurations(Tail(cs))

\* the sum of the silences after the words in B
RECURSIVE SumGaps(_)
SumGaps(B) ==
    IF B = {} THEN 0
    ELSE LET b == CHOOSE x \in B : TRUE
         IN  GapAfterMs(b) + SumGaps(B \ {b})

\* C29: the duration_ms of every returned chunk is (end of its last word
\* minus start of its first word) * 1000; for words that do not overlap the
\* durations add up to (last word end minus first word start) * 1000 minus
\* the silences at the chunk boundaries, which is at most that span.
C29_DurationIsWordSpan ==
    (pc = "returned" /\ words # <<>>) =>
        /\ Len(final_chunks) = Len(pacing_chunks)
        /\ \A i \in 1..Len(final_chunks) :
              final_chunks[i].duration_ms =
                  SpanMs(pacing_chunks[i].word_indices[1], pacing_chunks[i].word_indices[2])
        /\ NoWordOverlap(words) =>
              /\ SumDurations(final_chunks) =
                     SpanMs(1, Len(words)) - SumGaps(BoundariesOf(pacing_chunks))
              /\ SumDurations(final_chunks) <= SpanMs(1, Len(words))

\* words that do not overlap, returned as two or more chunks with a silence
\* at a boundary, one of them made by the merge pass: the durations add up
\* to less than the span of the words
C29_Witness ==
    /\ pc = "returned"
    /\ Len(words) = 3
    /\ NoWordOverlap(words)
    /\ Len(final_chunks) >= 2
    /\ Len(merged) < 1 + Cardinality(GapCuts)
    /\ \E b \in BoundariesOf(pacing_chunks) : GapAfterMs(b) > 0
    /\ SumDurations(final_chunks) < SpanMs(1, Len(words))
    /\ SumDurations(final_chunks) > 0

----------------------------------------------------------------------------
(* Properties of ImageGenerator *)

\* call i tried Gemini and got an exception or no image bytes
GeminiFailedIn(i) == image_calls[i].gemini \in {"no_bytes", "exception"}

\* C26: once a process() call has tried Gemini and failed, gemini_has_failed
\* is true from then on and no later call tries Gemini; a later call with a
\* prompt tries Bytez exactly when bytez_model is set, returns an image only
\* if Bytez returned one, and returns None when Bytez is not set or fails.
C26_GeminiNeverRetried ==
    /\ (\E i \in 1..Len(image_calls) : GeminiFailedIn(i)) => gemini_has_failed
    /\ \A i, j \in 1..Len(image_calls) :
          (i < j /\ GeminiFailedIn(i)) =>
              /\ image_calls[j].gemini = "not_called"
              /\ ~image_calls[j].prompt_empty =>
                    (image_calls[j].bytez # "not_called") = bytez_model
              /\ (image_calls[j].result = "image") = (image_calls[j].bytez = "image")
              /\ image_calls[j].bytez \in {"not_called", "no_bytes", "exception"} =>
                    image_calls[j].result = "None"

\* Gemini returned no image bytes in the first call; the second call went to
\* Bytez alone and returned its image, the third found Bytez failing and
\* returned None
C26_Witness ==
    /\ Len(image_calls) = 3
    /\ bytez_model
    /\ gemini_has_failed
    /\ image_calls[1].gemini = "no_bytes"
    /\ image_calls[2].gemini = "not_called"
    /\ image_calls[2].bytez = "image"
    /\ image_calls[2].result = "image"
    /\ image_calls[3].gemini = "not_called"
    /\ image_calls[3].bytez = "exception"
    /\ image_calls[3].result = "None"

----------------------------------------------------------------------------
(* Properties of Orchestrator.run_pipeline *)

\* the stages visited so far are the first stages of pipeline_steps, in order
VisitedInOrder ==
    /\ Len(stage_log) <= Len(PipelineSteps)
    /\ \A k \in 1..Len(stage_log) : stage_log[k][1] = PipelineSteps[k]

\* C30: the stages are visited in the order of pipeline_steps; a stage is
\* skipped exactly when its artifact exists; no stage function reads a value
\* that is unset, whatever artifacts existed at the start; True and COMPLETE
\* are reached only with all seven stages visited and none raising; a stage
\* that raises is the last stage visited and the run returns False.
C30_StagesInOrderValuesSet ==
    /\ [] ( /\ VisitedInOrder
            /\ unset_reads = {}
            /\ (run_result = "True") = (current_stage = "COMPLETE")
            /\ run_result = "True" =>
                  /\ Len(stage_log) = Len(PipelineSteps)
                  /\ \A k \in 1..Len(stage_log) : stage_log[k][2] \in {"skipped", "executed"}
            /\ \A k \in 1..Len(stage_log) :
                  stage_log[k][2] = "raised" =>
                      /\ k = Len(stage_log)
                      /\ run_result = "False"
                      /\ current_stage = stage_log[k][1]
            /\ run_result = "False" =>
                  /\ stage_log # <<>>
                  /\ stage_log[Len(stage_log)][2] = "raised"
            /\ run_result = "running" =>
                  /\ step_no = Len(stage_log) + 1
                  /\ \A k \in 1..Len(stage_log) : stage_log[k][2] # "raised" )
    /\ [][ (pc = "pipeline" /\ Len(stage_log') = Len(stage_log) + 1) =>
             LET stage == PipelineSteps[step_no]
                 how   == stage_log'[Len(stage_log')][2]
             IN  /\ run_result = "running"
                 /\ stage_log'[Len(stage_log')][1] = stage
                 /\ how = "skipped" => Artifact(stage) \in files
                 /\ how = "executed" => Artifact(stage) \notin files
                 /\ (how # "raised" /\ Artifact(stage) \in files) => how = "skipped"
                 /\ how = "executed" => \A n \in Reads(stage) : IsSet(n) ]_vars

\* a run that returned True: the script, the analysis and the image sequence
\* were found on disk, the audio, the prompts, the subtitles and the video
\* were made by their stage functions
C30_Witness ==
    /\ run_result = "True"
    /\ current_stage = "COMPLETE"
    /\ Len(stage_log) = 7
    /\ \A k \in {1, 3, 5} : stage_log[k][2] = "skipped"
    /\ \A k \in {2, 4, 6, 7} : stage_log[k][2] = "executed"
    /\ {"master_audio", "image_sequence", "subtitles", "final_video"} \subseteq asset_paths

====
